---- MODULE Spec2Model ----
(***************************************************************************)
(* Model of the constrained-decoding core of outlines-js:                  *)
(*   - Vocabulary, Index and Guide of src/src/outlines-core/guide.ts       *)
(*   - RegexGuide of src/src/processors/guide.ts and the                   *)
(*     GuideLogitsProcessor of src/src/processors/structured-processor.ts  *)
(* Strings are sequences of one-character strings, so that the character   *)
(* tests of the source (includes, /\d/, /[a-zA-Z]/, /\s/) are computed.    *)
(* A JS Map is a sequence of <<key, value>> pairs in insertion order.      *)
(***************************************************************************)
EXTENDS Integers, Sequences, FiniteSets, TLC

\* ---------------------------------------------------------------- bounds
MaxRollbackArg == 2      \* largest maxRollback a Guide is created with
MaxSteps == 3            \* advances recorded over both guides together
MaxRollbackN == 2        \* largest n handed to rollbackState
MaxSeqLen == 2           \* longest sequence handed to acceptsTokens
MaxTokenId == 2          \* token ids are 0..MaxTokenId

\* ------------------------------------------------------------- constants
NoState == 0 - 1         \* JS null returned where a StateId is expected
DefaultMaxRollback == 32 \* default of the Guide constructor

TokenIds == 0..MaxTokenId

\* ------------------------------------------------------ string helpers
Digits == {"0", "1", "2", "3", "4", "5", "6", "7", "8", "9"}
Letters == {"a", "b", "c", "d", "e", "f", "g", "h", "i", "j", "k", "l", "m",
            "n", "o", "p", "q", "r", "s", "t", "u", "v", "w", "x", "y", "z",
            "A", "B", "C", "D", "E", "F", "G", "H", "I", "J", "K", "L", "M",
            "N", "O", "P", "Q", "R", "S", "T", "U", "V", "W", "X", "Y", "Z"}
Whitespace == {" ", "\t", "\n", "\r", "\f"}

\* String.prototype.includes
Includes(s, sub) ==
  \E i \in 0..(Len(s) - Len(sub)) : SubSeq(s, i + 1, i + Len(sub)) = sub

\* RegExp /[class]/.test(s): some character of s is in the class
TestClass(s, class) == \E i \in 1..Len(s) : s[i] \in class

EOS_TOKEN == <<"<", "E", "O", "S", ">">>
STR_number == <<"n", "u", "m", "b", "e", "r">>
STR_integer == <<"i", "n", "t", "e", "g", "e", "r">>
STR_string == <<"s", "t", "r", "i", "n", "g">>
STR_true == <<"t", "r", "u", "e">>
STR_false == <<"f", "a", "l", "s", "e">>
STR_null == <<"n", "u", "l", "l">>
JsonTokens == {<<",">>, <<":">>, STR_true, STR_false, STR_null}

\* ------------------------------------------------------------- JS Map
MapKeys(m) == [i \in 1..Len(m) |-> m[i][1]]
MapHas(m, k) == \E i \in 1..Len(m) : m[i][1] = k
MapIdx(m, k) == CHOOSE i \in 1..Len(m) : m[i][1] = k
MapGet(m, k) == m[MapIdx(m, k)][2]
MapSet(m, k, v) ==
  IF MapHas(m, k) THEN [m EXCEPT ![MapIdx(m, k)] = <<k, v>>]
  ELSE Append(m, <<k, v>>)
MapDelete(m, k) == SelectSeq(m, LAMBDA e : e[1] # k)

Max(a, b) == IF a >= b THEN a ELSE b
Min(a, b) == IF a <= b THEN a ELSE b
SeqToSet(s) == {s[i] : i \in 1..Len(s)}

\* ---------------------------------------------------------- Vocabulary
\* inner loop of the constructor: for (const id of ids) idToToken.set(id, token)
RECURSIVE Vocabulary_addIds(_, _, _)
Vocabulary_addIds(v, token, ids) ==
  IF ids = <<>> THEN v
  ELSE Vocabulary_addIds(
         [v EXCEPT !.idToToken = MapSet(@, Head(ids), token),
                   !.nextTokenId = Max(@, Head(ids) + 1)],
         token, Tail(ids))

\* outer loop of the constructor over Object.entries(tokenMap)
RECURSIVE Vocabulary_addEntries(_, _)
Vocabulary_addEntries(v, entries) ==
  IF entries = <<>> THEN v
  ELSE Vocabulary_addEntries(
         Vocabulary_addIds(
           [v EXCEPT !.tokenToIds = MapSet(@, Head(entries)[1], Head(entries)[2])],
           Head(entries)[1], Head(entries)[2]),
         Tail(entries))

Vocabulary_constructor(eosTokenId, tokenMap) ==
  Vocabulary_addEntries(
    [eosTokenId |-> eosTokenId,
     tokenToIds |-> <<>>,
     idToToken |-> <<<<eosTokenId, EOS_TOKEN>>>>,
     nextTokenId |-> 0],
    tokenMap)

\* the tokenToIds step of insert: a new token gets an empty id array first,
\* then the id is pushed unless the array includes it
Vocabulary_pushId(tokenToIds, token, tokenId) ==
  LET withToken == IF MapHas(tokenToIds, token) THEN tokenToIds
                   ELSE MapSet(tokenToIds, token, <<>>)
      existingIds == MapGet(withToken, token)
  IN MapSet(withToken, token,
            IF tokenId \in SeqToSet(existingIds) THEN existingIds
            ELSE Append(existingIds, tokenId))

\* insert without the test for the EOS id
Vocabulary_insert_noEosTest(v, token, tokenId) ==
  [err |-> "",
   v |-> [v EXCEPT !.tokenToIds = Vocabulary_pushId(@, token, tokenId),
                   !.idToToken = MapSet(@, tokenId, token),
                   !.nextTokenId = Max(@, tokenId + 1)]]

\* insert(token, tokenId): result [err, v]
Vocabulary_insert(v, token, tokenId) ==
  IF tokenId = v.eosTokenId
  THEN [err |-> "EOSTokenDisallowed", v |-> v]
  ELSE [err |-> "",
        v |-> [v EXCEPT !.tokenToIds = Vocabulary_pushId(@, token, tokenId),
                        !.idToToken = MapSet(@, tokenId, token),
                        !.nextTokenId = Max(@, tokenId + 1)]]

\* for (const id of ids) idToToken.delete(id)
RECURSIVE Vocabulary_deleteIds(_, _)
Vocabulary_deleteIds(idToToken, ids) ==
  IF ids = <<>> THEN idToToken
  ELSE Vocabulary_deleteIds(MapDelete(idToToken, Head(ids)), Tail(ids))

\* remove(token): an id array, also an empty one, is truthy
Vocabulary_remove(v, token) ==
  IF MapHas(v.tokenToIds, token)
  THEN [v EXCEPT !.idToToken = Vocabulary_deleteIds(@, MapGet(v.tokenToIds, token)),
                 !.tokenToIds = MapDelete(@, token)]
  ELSE v

\* get(token): tokenToIds.get(token) || null, as [isNull, ids]
Vocabulary_get(v, token) ==
  IF MapHas(v.tokenToIds, token)
  THEN [isNull |-> FALSE, ids |-> MapGet(v.tokenToIds, token)]
  ELSE [isNull |-> TRUE, ids |-> <<>>]

Vocabulary_len(v) == Len(v.idToToken)

Vocabulary_getAllTokenIds(v) == MapKeys(v.idToToken)

\* idToToken.get(id) || null : a missing id and the empty string both give null
Vocabulary_hasTokenById(v, id) ==
  MapHas(v.idToToken, id) /\ MapGet(v.idToToken, id) # <<>>
Vocabulary_getTokenById(v, id) == MapGet(v.idToToken, id)

\* --------------------------------------------------------------- Index
Index_analyzeRegexPattern(pattern) ==
  [canAcceptQuotes |-> Includes(pattern, <<"\"">>),
   canAcceptBraces |-> Includes(pattern, <<"{">>) \/ Includes(pattern, <<"}">>),
   canAcceptBrackets |-> Includes(pattern, <<"[">>) \/ Includes(pattern, <<"]">>),
   canAcceptNumbers |-> \/ TestClass(pattern, Digits)
                        \/ Includes(pattern, STR_number)
                        \/ Includes(pattern, STR_integer),
   canAcceptLetters |-> TestClass(pattern, Letters) \/ Includes(pattern, STR_string),
   canAcceptSpaces |-> TestClass(pattern, Whitespace) \/ Includes(pattern, <<" ">>),
   isUniversal |-> \/ pattern = <<".", "*">>
                   \/ pattern = <<".", "+">>
                   \/ Len(pattern) = 0]

\* the body of the for loop of buildTransitions that computes canTransition
Index_canTransition(states, token) ==
  IF states.isUniversal THEN TRUE
  ELSE \/ states.canAcceptQuotes /\ Includes(token, <<"\"">>)
       \/ states.canAcceptBraces
            /\ (Includes(token, <<"{">>) \/ Includes(token, <<"}">>))
       \/ states.canAcceptBrackets /\ (token = <<"[">> \/ token = <<"]">>)
       \/ states.canAcceptNumbers /\ TestClass(token, Digits)
       \/ states.canAcceptLetters /\ TestClass(token, Letters)
       \/ states.canAcceptSpaces /\ TestClass(token, Whitespace)
       \/ token \in JsonTokens

\* allowedFromInitial, in the order of vocabulary.getAllTokenIds()
Index_allowedFromInitial(vocab, states) ==
  SelectSeq(Vocabulary_getAllTokenIds(vocab),
            LAMBDA id : /\ Vocabulary_hasTokenById(vocab, id)
                        /\ Index_canTransition(states,
                                               Vocabulary_getTokenById(vocab, id)))

\* buildTransitions that stores no transition out of the accepting state
Index_buildTransitions_noAcceptingRow(vocab, states, stateCounter) ==
  LET initialState == 0
      acceptingState == stateCounter
      allowed == Index_allowedFromInitial(vocab, states)
      row == [t \in SeqToSet(allowed) |-> acceptingState]
  IN [initialState |-> initialState,
      finalStates |-> {acceptingState},
      transitions |-> IF allowed = <<>> THEN <<>> ELSE (initialState :> row),
      stateAllowedTokens |-> (initialState :> allowed) @@ (acceptingState :> allowed)]

\* transitions is a function state -> (tokenId -> state); a row exists only
\* once a transition was stored in it
Index_buildTransitions(vocab, states, stateCounter) ==
  LET initialState == 0
      acceptingState == stateCounter
      allowed == Index_allowedFromInitial(vocab, states)
      row == [t \in SeqToSet(allowed) |-> acceptingState]
  IN [initialState |-> initialState,
      finalStates |-> {acceptingState},
      transitions |-> IF allowed = <<>> THEN <<>>
                      ELSE (initialState :> row) @@ (acceptingState :> row),
      stateAllowedTokens |-> (initialState :> allowed) @@ (acceptingState :> allowed)]

\* constructor -> buildAutomaton: initialState = stateCounter++ (0), then
\* buildTransitions(states, 1)
Index_constructor(regex, vocab) ==
  Index_buildTransitions(vocab, Index_analyzeRegexPattern(regex), 1)

Index_getInitialState(idx) == idx.initialState

Index_hasAllowedTokensEntry(idx, state) == state \in DOMAIN idx.stateAllowedTokens
Index_getAllowedTokens(idx, state) == idx.stateAllowedTokens[state]

\* stateTransitions[tokenId] || null : a missing row, a missing key and a
\* target state 0 all give null
Index_getNextState(idx, state, tokenId) ==
  IF state \notin DOMAIN idx.transitions THEN NoState
  ELSE IF tokenId \notin DOMAIN idx.transitions[state] THEN NoState
  ELSE IF idx.transitions[state][tokenId] = 0 THEN NoState
  ELSE idx.transitions[state][tokenId]

Index_isFinalState(idx, state) == state \in idx.finalStates

\* --------------------------------------------------------------- Guide
\* A Guide object is [alive, state, stateCache, maxRollback]; stateCache is
\* the address of a JS array in heap, so that two guides holding the same
\* array would see each other's shift/push/pop.
Guide_constructor(idx, maxRollback, addr) ==
  [alive |-> TRUE, state |-> Index_getInitialState(idx),
   stateCache |-> addr, maxRollback |-> maxRollback]

\* advance that stores the prior state before it looks the transition up
Guide_advance_pushFirst(idx, state, cache, maxRollback, tokenId) ==
  LET nextState == Index_getNextState(idx, state, tokenId)
      shifted == IF Len(cache) >= maxRollback /\ cache # <<>>
                 THEN Tail(cache) ELSE cache
  IN IF nextState = NoState
     THEN [err |-> "InvalidTransition", state |-> state,
           cache |-> Append(shifted, state)]
     ELSE [err |-> "", state |-> nextState, cache |-> Append(shifted, state)]

\* advance(tokenId): result [err, state, cache] for a guide in `state` whose
\* cache array holds `cache`
Guide_advance(idx, state, cache, maxRollback, tokenId) ==
  LET nextState == Index_getNextState(idx, state, tokenId)
      shifted == IF Len(cache) >= maxRollback /\ cache # <<>>
                 THEN Tail(cache) ELSE cache
  IN IF nextState = NoState
     THEN [err |-> "InvalidTransition", state |-> state, cache |-> cache]
     ELSE [err |-> IF Index_hasAllowedTokensEntry(idx, nextState)
                   THEN "" ELSE "InvalidState",
           state |-> nextState,
           cache |-> Append(shifted, state)]

\* rollbackState that takes the newest cached state whatever n is
Guide_rollbackState_top(state, cache, n) ==
  IF n = 0 THEN [err |-> "", state |-> state, cache |-> cache]
  ELSE IF n > Len(cache)
  THEN [err |-> "InvalidRollback", state |-> state, cache |-> cache]
  ELSE [err |-> "",
        state |-> cache[Len(cache)],
        cache |-> SubSeq(cache, 1, Len(cache) - n)]

\* rollbackState whose bound test is n >= length
Guide_rollbackState_offByOne(state, cache, n) ==
  IF n = 0 THEN [err |-> "", state |-> state, cache |-> cache]
  ELSE IF n >= Len(cache)
  THEN [err |-> "InvalidRollback", state |-> state, cache |-> cache]
  ELSE [err |-> "",
        state |-> cache[Len(cache) - n + 1],
        cache |-> SubSeq(cache, 1, Len(cache) - n)]

\* rollbackState(n): result [err, state, cache]
Guide_rollbackState(state, cache, n) ==
  IF n = 0 THEN [err |-> "", state |-> state, cache |-> cache]
  ELSE IF n > Len(cache)
  THEN [err |-> "InvalidRollback", state |-> state, cache |-> cache]
  ELSE [err |-> "",
        state |-> cache[Len(cache) - n + 1],
        cache |-> SubSeq(cache, 1, Len(cache) - n)]

\* reset that keeps the cached states
Guide_reset_keepCache(idx, state, cache) ==
  [state |-> Index_getInitialState(idx), cache |-> cache]

\* reset(): [state, cache] the guide holds afterwards (the cache is a new
\* empty array)
Guide_reset(idx, state, cache) ==
  [state |-> Index_getInitialState(idx), cache |-> <<>>]

\* acceptsTokens that returns after the first id
Guide_acceptsTokens_firstOnly(idx, currentState, sequence) ==
  IF sequence = <<>> THEN TRUE
  ELSE Index_getNextState(idx, currentState, Head(sequence)) # NoState

\* acceptsTokens(sequence), the loop over the sequence from currentState
RECURSIVE Guide_acceptsTokens(_, _, _)
Guide_acceptsTokens(idx, currentState, sequence) ==
  IF sequence = <<>> THEN TRUE
  ELSE LET nextState == Index_getNextState(idx, currentState, Head(sequence))
       IN IF nextState = NoState THEN FALSE
          ELSE Guide_acceptsTokens(idx, nextState, Tail(sequence))

\* simulateAdvance(sequence): [valid, finalState, failedAt]
RECURSIVE Guide_simulateAdvance(_, _, _, _)
Guide_simulateAdvance(idx, currentState, sequence, i) ==
  IF i >= Len(sequence)
  THEN [valid |-> TRUE, finalState |-> currentState, failedAt |-> NoState]
  ELSE LET nextState == Index_getNextState(idx, currentState, sequence[i + 1])
       IN IF nextState = NoState
          THEN [valid |-> FALSE, finalState |-> NoState, failedAt |-> i]
          ELSE Guide_simulateAdvance(idx, nextState, sequence, i + 1)

\* ------------------------------------------------------- inputs (core)
tok_a == <<"a">>
tok_1 == <<"1">>
tok_comma == <<",">>
tok_empty == <<>>

\* (regex, tokenMap) pairs the Index is built from; a tokenMap is given as
\* Object.entries yields it
Setups ==
  { \* letters pattern: "a" and <EOS> pass the letter test, "1" does not
    [regex |-> <<"a", "b">>, tokenMap |-> <<<<tok_1, <<1>>>>, <<tok_a, <<0>>>>>>],
    \* digit pattern: "1" passes, "," is a JSON token, <EOS> fails
    [regex |-> <<"1">>, tokenMap |-> <<<<tok_1, <<1>>>>, <<tok_comma, <<2>>>>>>],
    \* one token with two ids
    [regex |-> <<"1">>, tokenMap |-> <<<<tok_1, <<0, 1>>>>>>],
    \* nothing passes: the allowed list is empty
    [regex |-> <<"1">>, tokenMap |-> <<<<tok_a, <<0>>>>>>],
    \* universal pattern, with an empty token that is skipped
    [regex |-> <<".", "*">>, tokenMap |-> <<<<tok_empty, <<0>>>>, <<tok_a, <<2>>>>>>] }

\* the eos id that goes with each tokenMap (the largest id the map does not use)
EosFor(tokenMap) ==
  CHOOSE e \in TokenIds :
    /\ \A i \in 1..Len(tokenMap) : e \notin SeqToSet(tokenMap[i][2])
    /\ \A f \in TokenIds :
         (\A i \in 1..Len(tokenMap) : f \notin SeqToSet(tokenMap[i][2])) => f <= e

GuideIds == {1, 2}
Addrs == 1..3

\* ------------------------------------------------------ state (core)
VARIABLES
  regex,        \* the pattern the Index was built from
  vocabulary,   \* the Vocabulary object
  index,        \* the Index object
  guides,       \* GuideIds -> Guide object (2 is the clone of 1)
  heap,         \* Addrs -> contents of the stateCache arrays
  path,         \* GuideIds -> ids of the advances in effect (history variable)
  hist,         \* GuideIds -> state before each of those advances (history variable)
  last,         \* the last call: [op, g, n, err ("" when it returned), ret]
  processor,    \* the GuideLogitsProcessor object (with its RegexGuide)
  pcall,        \* the last process_logits call: its inputs and its result
  statesMappingCache,  \* the module-level Map of processors/guide.ts
  trial         \* the last schema or DSL construction: its inputs and its result

coreVars == <<regex, vocabulary, index, guides, heap, path, hist, last>>
procVars == <<processor, pcall>>
libVars == <<statesMappingCache, trial>>
NoTrial == [op |-> "none"]

\* no GuideLogitsProcessor has been constructed / called
NoProcessor == [alive |-> FALSE]
NoProcCall ==
  [op |-> "none", err |-> "", input_ids |-> <<>>, gens |-> <<>>,
   sequence_states |-> <<>>,
   logits |-> <<>>, out |-> [shape |-> <<0>>, data |-> <<>>],
   logits_in |-> [shape |-> <<0>>, data |-> <<>>],
   state |-> 0, ret |-> [type |-> "none", tokens |-> <<>>],
   copy |-> NoProcessor, guide |-> [regexString |-> <<>>]]

NoGuide == [alive |-> FALSE, state |-> NoState, stateCache |-> 0, maxRollback |-> 0]
NoCall == [op |-> "none", g |-> 0, n |-> 0, err |-> "", ret |-> FALSE]

InitCore ==
  /\ \E setup \in Setups :
       /\ regex = setup.regex
       /\ vocabulary = Vocabulary_constructor(EosFor(setup.tokenMap), setup.tokenMap)
  /\ index = Index_constructor(regex, vocabulary)
  /\ \E maxRollback \in 0..MaxRollbackArg :
       guides = (1 :> Guide_constructor(index, maxRollback, 1)) @@ (2 :> NoGuide)
  /\ heap = [a \in Addrs |-> <<>>]
  /\ path = [g \in GuideIds |-> <<>>]
  /\ hist = [g \in GuideIds |-> <<>>]
  /\ last = NoCall
  /\ processor = NoProcessor
  /\ pcall = NoProcCall
  /\ statesMappingCache = <<>>
  /\ trial = NoTrial

Cache(g) == heap[guides[g].stateCache]
StepsTaken == Len(path[1]) + Len(path[2])
\* an address no live guide refers to (a fresh JS array)
FreshAddr == CHOOSE a \in Addrs :
               /\ \A g \in GuideIds : guides[g].alive => guides[g].stateCache # a
               /\ \A b \in Addrs :
                    (\A g \in GuideIds : guides[g].alive => guides[g].stateCache # b)
                      => a <= b

\* guide.advance(tokenId)
Advance(g, tokenId) ==
  /\ guides[g].alive
  /\ StepsTaken < MaxSteps
  /\ LET r == Guide_advance(index, guides[g].state, Cache(g),
                            guides[g].maxRollback, tokenId)
     IN /\ guides' = [guides EXCEPT ![g].state = r.state]
        /\ heap' = [heap EXCEPT ![guides[g].stateCache] = r.cache]
        /\ path' = IF r.err = "InvalidTransition" THEN path
                   ELSE [path EXCEPT ![g] = Append(@, tokenId)]
        /\ hist' = IF r.err = "InvalidTransition" THEN hist
                   ELSE [hist EXCEPT ![g] = Append(@, guides[g].state)]
        /\ last' = [NoCall EXCEPT !.op = "advance", !.g = g, !.err = r.err]
  /\ UNCHANGED <<regex, vocabulary, index, procVars, libVars>>

\* guide.rollbackState(n)
Rollback(g, n) ==
  /\ guides[g].alive
  /\ LET r == Guide_rollbackState(guides[g].state, Cache(g), n)
     IN /\ guides' = [guides EXCEPT ![g].state = r.state]
        /\ heap' = [heap EXCEPT ![guides[g].stateCache] = r.cache]
        /\ path' = IF r.err = ""
                   THEN [path EXCEPT ![g] = SubSeq(@, 1, Len(@) - n)]
                   ELSE path
        /\ hist' = IF r.err = ""
                   THEN [hist EXCEPT ![g] = SubSeq(@, 1, Len(@) - n)]
                   ELSE hist
        /\ last' = [NoCall EXCEPT !.op = "rollback", !.g = g, !.n = n,
                                  !.err = r.err]
  /\ UNCHANGED <<regex, vocabulary, index, procVars, libVars>>

\* guide.reset(): the state goes back to the initial state and stateCache is
\* bound to a new empty array; the old array is left to the collector unless
\* the other guide still holds it
Reset(g) ==
  /\ guides[g].alive
  /\ LET old == guides[g].stateCache
         shared == \E h \in GuideIds \ {g} :
                      guides[h].alive /\ guides[h].stateCache = old
         new == FreshAddr
         r == Guide_reset(index, guides[g].state, Cache(g))
     IN /\ guides' = [guides EXCEPT ![g].state = r.state,
                                    ![g].stateCache = new]
        /\ heap' = [heap EXCEPT ![new] = r.cache,
                                ![old] = IF shared THEN @ ELSE <<>>]
  /\ path' = [path EXCEPT ![g] = <<>>]
  /\ hist' = [hist EXCEPT ![g] = <<>>]
  /\ last' = [NoCall EXCEPT !.op = "reset", !.g = g]
  /\ UNCHANGED <<regex, vocabulary, index, procVars, libVars>>

\* guide.acceptsTokens(sequence)
AcceptsTokens(g, sequence) ==
  /\ guides[g].alive
  /\ last' = [NoCall EXCEPT !.op = "acceptsTokens", !.g = g,
                            !.ret = Guide_acceptsTokens(index, guides[g].state,
                                                        sequence)]
  /\ UNCHANGED <<regex, vocabulary, index, guides, heap, path, hist, procVars, libVars>>

\* clone that stores the original's cache array itself, not a copy
Guide_clone_shared(idx, guide, cache, addr) ==
  [guide |-> [Guide_constructor(idx, guide.maxRollback, guide.stateCache)
                EXCEPT !.state = guide.state],
   cache |-> cache]

\* clone(): new Guide(index, maxRollback), then state and a copy of the
\* cache array are stored in it; [state, stateCache address, cache contents]
Guide_clone(idx, guide, cache, addr) ==
  [guide |-> [Guide_constructor(idx, guide.maxRollback, addr)
                EXCEPT !.state = guide.state],
   cache |-> cache]

\* guides[2] = guides[1].clone()
Clone ==
  /\ guides[1].alive
  /\ ~guides[2].alive
  /\ LET c == Guide_clone(index, guides[1], Cache(1), FreshAddr)
     IN /\ guides' = [guides EXCEPT ![2] = c.guide]
        /\ heap' = [heap EXCEPT ![c.guide.stateCache] = c.cache]
  /\ path' = [path EXCEPT ![2] = path[1]]
  /\ hist' = [hist EXCEPT ![2] = hist[1]]
  /\ last' = [NoCall EXCEPT !.op = "clone", !.g = 1]
  /\ UNCHANGED <<regex, vocabulary, index, procVars, libVars>>

SeqsUpTo(S, n) == UNION {[1..k -> S] : k \in 0..n}

NextCore ==
  \/ \E g \in GuideIds, tokenId \in TokenIds : Advance(g, tokenId)
  \/ \E g \in GuideIds, n \in 0..MaxRollbackN : Rollback(g, n)
  \/ \E g \in GuideIds : Reset(g)
  \/ \E g \in GuideIds, sequence \in SeqsUpTo(TokenIds, MaxSeqLen) :
       AcceptsTokens(g, sequence)
  \/ Clone

vars == <<coreVars, procVars, libVars>>

Spec == InitCore /\ [][NextCore]_vars

\* ============================================================ processors
\* ------------------------------------------------------------ bounds
MaxBatch == 1            \* rows B of input_ids and of logits
MaxInputLen == 2         \* columns T of input_ids
MaxCalls == 3            \* process_logits calls on one processor

\* ------------------------------------------------------------ values
Undefined == 0 - 2       \* JS undefined where a state is expected
Null == 0 - 1            \* JS null (_seq_start_idx before the first call)
NegInfinity == 0 - 99    \* -Infinity, below every logit value used
LogitValues == {1, 2, 3}

\* ------------------------------------------------------------ tensors
\* a tf.Tensor is its shape and its values in row-major order
RECURSIVE Flatten(_)
Flatten(rows) == IF rows = <<>> THEN <<>> ELSE Head(rows) \o Flatten(Tail(rows))

RECURSIVE Product(_)
Product(shape) == IF shape = <<>> THEN 1 ELSE Head(shape) * Product(Tail(shape))

\* tf.tensor(values) of a flat array
tf_tensor1d(values) == [shape |-> <<Len(values)>>, data |-> values]
\* tf.tensor(values) of an array of arrays: the shape is inferred from the
\* first row, the data is every row flattened
tf_tensor2d(rows) == [shape |-> <<Len(rows), Len(rows[1])>>, data |-> Flatten(rows)]
\* tensor.arraySync() of a 2-D tensor
tf_arraySync(t) ==
  [b \in 1..t.shape[1] |->
     SubSeq(t.data, (b - 1) * t.shape[2] + 1, b * t.shape[2])]

TensorFlow_shape(tensor) == tensor.shape
TensorFlow_toList(tensor) == tensor.data
TensorFlow_toScalar(tensor) == tensor.data[1]
TensorFlow_fullLike(tensor, fillValue) ==
  [shape |-> tensor.shape, data |-> [i \in 1..Product(tensor.shape) |-> fillValue]]
TensorFlow_concatenate(tensors) ==
  IF Len(tensors) = 1 THEN tensors[1]
  ELSE [shape |-> <<Len(Flatten([i \in 1..Len(tensors) |-> tensors[i].data]))>>,
        data |-> Flatten([i \in 1..Len(tensors) |-> tensors[i].data])]
TensorFlow_toDevice(tensor) == tensor
TensorFlow_booleanOnesLike(tensor) ==
  [shape |-> tensor.shape, data |-> [i \in 1..Product(tensor.shape) |-> 1]]
\* tf.where(mask, fill(value), tensor)
TensorFlow_applyMask(tensor, mask, value) ==
  [shape |-> tensor.shape,
   data |-> [i \in 1..Len(tensor.data) |->
               IF mask.data[i] = 1 THEN value ELSE tensor.data[i]]]

\* ------------------------------------------------------------ tokenizer
tok_ab == <<"a", "b">>
tok_eos == <<"<", "/", "s", ">">>
tok_llamaSpace == <<"<", "0", "x", "2", "0", ">">>

\* the tokenizer of the model: vocabulary as Object.entries yields it
Tokenizer ==
  [vocabulary |-> <<<<tok_a, 0>>, <<tok_ab, 1>>, <<tok_eos, 2>>>>,
   eosTokenId |-> 2,
   isLlama |-> FALSE]
VocabSize == Len(Tokenizer.vocabulary)
ProcTokenIds == {Tokenizer.vocabulary[i][2] : i \in 1..VocabSize}

\* patterns the processor is built for: literal text, which RegExp.test
\* finds anywhere in the token string
ProcRegexes == {<<"a">>, <<"b">>, <<"c">>}

convertTokenToString(tokenizer, token) ==
  IF tokenizer.isLlama /\ ((token # <<>> /\ Head(token) = "_") \/ token = tok_llamaSpace)
  THEN <<" ">> \o token
  ELSE token

\* new RegExp(regexString).test(s) for a pattern of literal characters
RegExp_test(regexString, s) == Includes(s, regexString)

MapValues(m) == [i \in 1..Len(m) |-> m[i][2]]

\* the branch taken for patterns that are not JSON-schema patterns
filterTokensByRegex(regexString, tokenizer) ==
  MapValues(SelectSeq(tokenizer.vocabulary,
                    LAMBDA e : RegExp_test(regexString,
                                           convertTokenToString(tokenizer, e[1]))))

RECURSIVE MapFromPairs(_)
MapFromPairs(pairs) ==
  IF pairs = <<>> THEN <<>>
  ELSE LET front == MapFromPairs(SubSeq(pairs, 1, Len(pairs) - 1))
           e == pairs[Len(pairs)]
       IN MapSet(front, e[1], e[2])

buildRegexFSM(regexString, tokenizer) ==
  LET initialState == 0
      finalState == 1
      allowedTokens == filterTokensByRegex(regexString, tokenizer)
  IN [states |->
        (initialState :>
           [id |-> initialState,
            transitions |-> MapFromPairs([i \in 1..Len(allowedTokens) |->
                                            <<allowedTokens[i], finalState>>]),
            allowedTokens |-> SeqToSet(allowedTokens),
            isFinal |-> FALSE])
        @@ (finalState :>
           [id |-> finalState,
            transitions |-> <<>>,
            allowedTokens |-> {},
            isFinal |-> TRUE]),
      initialState |-> initialState,
      finalStates |-> {finalState}]

\* ------------------------------------------------------------ RegexGuide
\* constructor with the fsm handed in, as fromRegex and copy call it
RegexGuide_constructor(regexString, tokenizer, fsm) ==
  [regexString |-> regexString, tokenizer |-> tokenizer, fsm |-> fsm,
   initialState |-> fsm.initialState]

\* JSON.stringify({regexString, tokenizer: tokenizer.vocabulary, args}):
\* the text spells out the pattern, the entries of the vocabulary in their
\* order and the arguments, and nothing else of the tokenizer
cacheKey(regexString, tokenizer, args) ==
  <<regexString, tokenizer.vocabulary, args>>

\* cachedCreateStatesMapping on the cache given; the result is the fsm and
\* the cache after the call
cachedCreateStatesMapping(cache, regexString, tokenizer, args) ==
  LET key == cacheKey(regexString, tokenizer, args)
  IN IF MapHas(cache, key)
     THEN [fsm |-> MapGet(cache, key), cache |-> cache]
     ELSE LET fsm == buildRegexFSM(regexString, tokenizer)
          IN [fsm |-> fsm, cache |-> MapSet(cache, key, fsm)]

\* RegexGuide.fromRegex(regexString, tokenizer) on the cache given; the
\* result is the guide and the cache after the call
RegexGuide_fromRegex(cache, regexString, tokenizer) ==
  LET made == cachedCreateStatesMapping(cache, regexString, tokenizer, <<>>)
  IN [guide |-> RegexGuide_constructor(regexString, tokenizer, made.fsm),
      cache |-> made.cache]

RegexGuide_getAllowedTokens(guide, state) ==
  IF state \notin DOMAIN guide.fsm.states THEN <<>>
  ELSE MapKeys(guide.fsm.states[state].transitions)

createWrite(tokens) == [type |-> "write", tokens |-> tokens]
createGenerate(tokens) == [type |-> "generate", tokens |-> tokens]

RegexGuide_getNextInstruction(guide, state) ==
  IF state = 0 - 1 THEN createWrite(<<guide.tokenizer.eosTokenId>>)
  ELSE LET allowedTokens == RegexGuide_getAllowedTokens(guide, state)
       IN IF Len(allowedTokens) = 0
          THEN createWrite(<<guide.tokenizer.eosTokenId>>)
          ELSE IF Len(allowedTokens) = 1 THEN createWrite(allowedTokens)
          ELSE createGenerate(allowedTokens)

\* getNextState falling back to the initial state
RegexGuide_getNextState_restart(guide, state, tokenId) ==
  IF state \notin DOMAIN guide.fsm.states THEN state
  ELSE LET currentState == guide.fsm.states[state]
       IN IF MapHas(currentState.transitions, tokenId)
          THEN MapGet(currentState.transitions, tokenId)
          ELSE guide.fsm.initialState

RegexGuide_getNextState(guide, state, tokenId) ==
  IF state \notin DOMAIN guide.fsm.states THEN state
  ELSE LET currentState == guide.fsm.states[state]
       IN IF MapHas(currentState.transitions, tokenId)
          THEN MapGet(currentState.transitions, tokenId)
          ELSE state

RegexGuide_isFinalState(guide, state) == state \in guide.fsm.finalStates

RegexGuide_copy(guide) ==
  RegexGuide_constructor(guide.regexString, guide.tokenizer, guide.fsm)

\* -------------------------------------------------- GuideLogitsProcessor
DigitChars == <<"0", "1", "2", "3", "4", "5", "6", "7", "8", "9">>

\* String(n) of a non-negative integer
RECURSIVE NumberToString(_)
NumberToString(n) ==
  IF n < 10 THEN <<DigitChars[n + 1]>>
  ELSE NumberToString(n \div 10) \o <<DigitChars[(n % 10) + 1]>>

RECURSIVE JoinNumbers(_)
JoinNumbers(array) ==
  IF array = <<>> THEN <<>>
  ELSE IF Len(array) = 1 THEN NumberToString(array[1])
  ELSE NumberToString(array[1]) \o <<",">> \o JoinNumbers(Tail(array))

\* JSON.stringify of an array of token ids
hash_key(array) == <<"[">> \o JoinNumbers(array) \o <<"]">>

\* seq_ids.slice(start) that hands back the whole row
Array_slice_whole(array, start) == array

\* seq_ids.slice(start)
Array_slice(array, start) == SubSeq(array, start + 1, Len(array))

\* gen_ids.slice(0, -1) that drops nothing
Array_dropLast_none(array) == array

\* gen_ids.slice(0, -1)
Array_dropLast(array) == SubSeq(array, 1, Len(array) - 1)

GuideLogitsProcessor_constructor(tokenizer, guide) ==
  [alive |-> TRUE,
   tokenizer |-> tokenizer,
   guide |-> guide,
   guide_states |-> MapSet(<<>>, hash_key(<<>>), guide.initialState),
   seq_start_idx |-> Null,
   calls |-> 0,
   inOrder |-> TRUE]

\* the first loop of process_logits: one state per row of input_ids, new
\* keys of _guide_states computed from the state stored for the prefix
RECURSIVE GuideLogitsProcessor_sequenceStates(_, _, _, _, _)
GuideLogitsProcessor_sequenceStates(guide, guide_states, rows, seq_start_idx, sequence_states) ==
  IF rows = <<>>
  THEN [guide_states |-> guide_states, sequence_states |-> sequence_states]
  ELSE LET seq_ids == Head(rows)
           gen_ids == Array_slice(seq_ids, seq_start_idx)
           curr_state_key == hash_key(TensorFlow_toList(tf_tensor1d(gen_ids)))
           prev_state_key ==
             hash_key(TensorFlow_toList(tf_tensor1d(Array_dropLast(gen_ids))))
           prev_state == IF MapHas(guide_states, prev_state_key)
                         THEN MapGet(guide_states, prev_state_key)
                         ELSE Undefined
           curr_state == RegexGuide_getNextState(guide, prev_state,
                                                 gen_ids[Len(gen_ids)])
           states2 == IF MapHas(guide_states, curr_state_key) THEN guide_states
                      ELSE MapSet(guide_states, curr_state_key, curr_state)
       IN GuideLogitsProcessor_sequenceStates(
            guide, states2, Tail(rows), seq_start_idx,
            Append(sequence_states, MapGet(states2, curr_state_key)))

\* setMaskValues: mask_list is the flat copy toList returns, so its elements
\* are numbers, Array.isArray(mask_list[batch_idx]) is false for every pair
\* and nothing is written; the mask tensor itself is never assigned
RECURSIVE GuideLogitsProcessor_maskList(_, _, _, _)
GuideLogitsProcessor_maskList(mask_list, batch_array, token_array, i) ==
  IF i > Min(Len(batch_array), Len(token_array)) THEN mask_list
  ELSE LET elementIsArray == FALSE
       IN GuideLogitsProcessor_maskList(
            IF elementIsArray
            THEN [mask_list EXCEPT ![batch_array[i] + 1] = 0]
            ELSE mask_list,
            batch_array, token_array, i + 1)

GuideLogitsProcessor_setMaskValues(mask, batch_indices, token_indices) ==
  LET mask_list == GuideLogitsProcessor_maskList(
                     TensorFlow_toList(mask), TensorFlow_toList(batch_indices),
                     TensorFlow_toList(token_indices), 1)
  IN mask

IsRagged(rows) == \E i \in 1..Len(rows) : Len(rows[i]) # Len(rows[1])

\* process_logits(input_ids, logits). raggedThrows is what tf.tensor does
\* with allowed-token rows of different lengths: it throws, or it builds a
\* tensor whose shape is inferred from the first row
GuideLogitsProcessor_process_logits(p, input_ids, logits, raggedThrows) ==
  LET seq_start_idx == IF p.seq_start_idx = Null
                       THEN TensorFlow_shape(input_ids)[2]
                       ELSE p.seq_start_idx
      walk == GuideLogitsProcessor_sequenceStates(
                p.guide, p.guide_states, tf_arraySync(input_ids),
                seq_start_idx, <<>>)
      sequence_states == walk.sequence_states
      gens == [i \in 1..Len(sequence_states) |->
                 Array_slice(tf_arraySync(input_ids)[i], seq_start_idx)]
      allowed_tokens_batch ==
        [i \in 1..Len(sequence_states) |->
           RegexGuide_getNextInstruction(p.guide, sequence_states[i]).tokens]
      batch_indices ==
        [i \in 1..Len(sequence_states) |->
           TensorFlow_fullLike(tf_tensor1d(allowed_tokens_batch[i]), i - 1)]
      allowed_tokens_concat ==
        TensorFlow_toDevice(TensorFlow_concatenate(<<tf_tensor2d(allowed_tokens_batch)>>))
      batch_indices_concat ==
        TensorFlow_toDevice(TensorFlow_concatenate(batch_indices))
      mask == GuideLogitsProcessor_setMaskValues(
                TensorFlow_booleanOnesLike(logits),
                batch_indices_concat, allowed_tokens_concat)
      masked_logits == TensorFlow_applyMask(logits, mask, NegInfinity)
      p2 == [p EXCEPT !.seq_start_idx = seq_start_idx,
                      !.guide_states = walk.guide_states]
  IN IF IsRagged(allowed_tokens_batch) /\ raggedThrows
     THEN [err |-> "Error", out |-> tf_tensor1d(<<>>), processor |-> p2,
           sequence_states |-> sequence_states, gens |-> gens,
           allowed_tokens_batch |-> allowed_tokens_batch]
     ELSE [err |-> "", out |-> masked_logits, processor |-> p2,
           sequence_states |-> sequence_states, gens |-> gens,
           allowed_tokens_batch |-> allowed_tokens_batch]

GuideLogitsProcessor_copy(p) ==
  GuideLogitsProcessor_constructor(p.tokenizer, RegexGuide_copy(p.guide))

\* ------------------------------------------------- state (processors)
\* logits handed to process_logits for B rows: all equal, or all different
LogitBatches(B) ==
  {[b \in 1..B |-> <<1, 1, 1>>], [b \in 1..B |-> <<b, b + 1, b + 2>>]}

\* the outlines-core token map of the tokenizer's vocabulary
TokenMapOf(tokenizer) ==
  [i \in 1..Len(tokenizer.vocabulary) |->
     <<tokenizer.vocabulary[i][1], <<tokenizer.vocabulary[i][2]>>>>]

\* new RegexLogitsProcessor(regex_string, tokenizer, 'tensorflow'); no
\* outlines-core Guide is constructed
InitProc ==
  /\ regex \in ProcRegexes
  /\ vocabulary = Vocabulary_constructor(Tokenizer.eosTokenId, TokenMapOf(Tokenizer))
  /\ index = Index_constructor(regex, vocabulary)
  /\ guides = [g \in GuideIds |-> NoGuide]
  /\ heap = [a \in Addrs |-> <<>>]
  /\ path = [g \in GuideIds |-> <<>>]
  /\ hist = [g \in GuideIds |-> <<>>]
  /\ last = NoCall
  /\ LET made == RegexGuide_fromRegex(<<>>, regex, Tokenizer)
     IN /\ processor = GuideLogitsProcessor_constructor(Tokenizer, made.guide)
        /\ statesMappingCache = made.cache
  /\ pcall = NoProcCall
  /\ trial = NoTrial

\* the ids of a row behind the prompt, for a processor about to be called
\* with rows of that length
PostPrompt(p, row) ==
  SubSeq(row, (IF p.seq_start_idx = Null THEN Len(row) ELSE p.seq_start_idx) + 1,
         Len(row))

\* the host kept its word for this call: every row has no generated ids yet
\* or extends, by one id, generated ids the processor has already seen
GrownInOrder(p, input_rows) ==
  \A b \in 1..Len(input_rows) :
    LET gen == PostPrompt(p, input_rows[b])
    IN \/ gen = <<>>
       \/ MapHas(p.guide_states, hash_key(SubSeq(gen, 1, Len(gen) - 1)))

\* processor.process_logits(input_ids, logits); calls counts the calls and
\* inOrder tells whether the host kept its word on all of them (history
\* variables)
ProcessLogits(input_rows, logit_rows, raggedThrows) ==
  /\ processor.alive
  /\ processor.calls < MaxCalls
  /\ LET r == GuideLogitsProcessor_process_logits(
                processor, tf_tensor2d(input_rows), tf_tensor2d(logit_rows),
                raggedThrows)
     IN /\ raggedThrows => IsRagged(r.allowed_tokens_batch)
        /\ processor' = [r.processor EXCEPT
                          !.calls = @ + 1,
                          !.inOrder = @ /\ GrownInOrder(processor, input_rows)]
        /\ pcall' = [NoProcCall EXCEPT !.op = "process_logits", !.err = r.err,
                                       !.input_ids = input_rows,
                                       !.gens = r.gens,
                                       !.sequence_states = r.sequence_states,
                                       !.logits = logit_rows, !.out = r.out]
  /\ UNCHANGED <<coreVars, libVars>>

\* processor.copy(): the new processor is handed back, the processor it was
\* called on stays as it is
ProcCopy ==
  /\ processor.alive
  /\ pcall' = [NoProcCall EXCEPT !.op = "copy",
                                 !.copy = GuideLogitsProcessor_copy(processor)]
  /\ UNCHANGED <<coreVars, processor, libVars>>

\* states a guide is asked about: the states of its FSM, -1 and undefined
InstructionStates == {0 - 1, 0, 1, Undefined}

\* processor.guide.getNextInstruction(state)
GetNextInstruction(state) ==
  /\ processor.alive
  /\ pcall' = [NoProcCall EXCEPT
                 !.op = "getNextInstruction", !.state = state,
                 !.ret = RegexGuide_getNextInstruction(processor.guide, state)]
  /\ UNCHANGED <<coreVars, processor, libVars>>

NextProc ==
  \/ \E B \in 1..MaxBatch, T \in 0..MaxInputLen :
       \E input_rows \in [1..B -> [1..T -> ProcTokenIds]],
          logit_rows \in LogitBatches(B),
          raggedThrows \in BOOLEAN :
         ProcessLogits(input_rows, logit_rows, raggedThrows)
  \/ ProcCopy
  \/ \E state \in InstructionStates : GetNextInstruction(state)

SpecProc == InitProc /\ [][NextProc]_vars

\* the host never stops for good: it always asks the guide for an
\* instruction again
SpecProcLive ==
  /\ InitProc
  /\ [][NextProc]_vars
  /\ WF_vars(\E state \in InstructionStates : GetNextInstruction(state))

\* ============================================================ entrypoint
\* ------------------------------------------------------------ bounds
MaxCallRows == 2

\* ------------------------------------- OutlinesLogitsProcessor.__call__
\* tf.tensor([logits.data]): the flat data of the incoming tensor becomes
\* the only row of a 2-D tensor
tf_tensorOfData(logits) == [shape |-> <<1, Len(logits.data)>>, data |-> logits.data]

TensorFlow_unsqueeze(tensor) == [shape |-> <<1>> \o tensor.shape, data |-> tensor.data]
TensorFlow_squeeze(tensor) == [shape |-> Tail(tensor.shape), data |-> tensor.data]

\* shape.slice(0, -1)
BatchShape(shape) == SubSeq(shape, 1, Len(shape) - 1)

\* __call__(input_ids, logits): input_ids a nested array of ids, logits a
\* tensor with fields shape (dims) and data; the result is err, the tensor
\* handed back and the processor after the call
OutlinesLogitsProcessor_call(p, input_rows, logits) ==
  LET ids0 == tf_tensor2d(input_rows)
      lg == tf_tensorOfData(logits)
      ids == IF /\ Len(TensorFlow_shape(ids0)) = 1
                /\ Len(TensorFlow_shape(lg)) = 2
                /\ TensorFlow_shape(lg)[1] = 1
             THEN TensorFlow_unsqueeze(ids0) ELSE ids0
      failed(e) == [err |-> e, out |-> NoProcCall.out, processor |-> p]
      \* the result of process_logits, squeezed back for 1-D logits; an
      \* exception of process_logits leaves through __call__
      processed(r, oneD) ==
        IF r.err # "" THEN [err |-> r.err, out |-> NoProcCall.out,
                            processor |-> r.processor]
        ELSE [err |-> "",
              out |-> IF oneD THEN TensorFlow_squeeze(r.out) ELSE r.out,
              processor |-> r.processor]
      dims == Len(TensorFlow_shape(lg))
  IN IF BatchShape(TensorFlow_shape(lg)) # BatchShape(TensorFlow_shape(ids))
     THEN failed("Error")
     ELSE IF dims \in {1, 2}
     THEN processed(
            GuideLogitsProcessor_process_logits(
              p,
              IF dims = 2 THEN ids ELSE TensorFlow_unsqueeze(ids),
              IF dims = 2 THEN lg ELSE TensorFlow_unsqueeze(lg),
              FALSE),
            dims = 1)
     ELSE failed("Error")

\* logits tensors the model hands to __call__: rows = 0 is a 1-D tensor of
\* one row's values, rows >= 1 a 2-D tensor of that many rows
CallLogits(rows) ==
  IF rows = 0
  THEN {[shape |-> <<Len(l[1])>>, data |-> l[1]] : l \in LogitBatches(1)}
  ELSE {tf_tensor2d(l) : l \in LogitBatches(rows)}

\* processor.__call__(input_ids, logits), the call the model makes at every
\* generation step
Call(input_rows, logits) ==
  /\ processor.alive
  /\ processor.calls < MaxCalls
  /\ \E r \in {OutlinesLogitsProcessor_call(processor, input_rows, logits)} :
       /\ processor' = [r.processor EXCEPT
                          !.calls = @ + 1,
                          !.inOrder = @ /\ GrownInOrder(processor, input_rows)]
       /\ pcall' = [NoProcCall EXCEPT !.op = "call", !.err = r.err,
                                      !.input_ids = input_rows,
                                      !.logits_in = logits, !.out = r.out]
  /\ UNCHANGED <<coreVars, libVars>>

\* the rows of a batch hold the same ids
NextCall ==
  \E B \in 1..MaxCallRows, T \in 0..MaxInputLen, rows \in 0..MaxCallRows :
    \E row \in [1..T -> ProcTokenIds], logits \in CallLogits(rows) :
      Call([b \in 1..B |-> row], logits)

SpecCall == InitProc /\ [][NextCall]_vars

\* ================================================== RegexGuide.fromRegex
tok_underscore_a == <<"_", "a">>

\* tokenizers guides are built for: the tokenizer of the model, and two
\* tokenizers over one vocabulary, of which one is a Llama tokenizer
GuideTokenizers ==
  {Tokenizer} \cup
  {[vocabulary |-> <<<<tok_underscore_a, 0>>, <<tok_a, 1>>, <<tok_eos, 2>>>>,
    eosTokenId |-> 2, isLlama |-> l] : l \in BOOLEAN}

GuideRegexes == {<<" ">>, <<"a">>}

InitGuide ==
  /\ regex = <<"1">>
  /\ vocabulary = Vocabulary_constructor(Tokenizer.eosTokenId, TokenMapOf(Tokenizer))
  /\ index = Index_constructor(regex, vocabulary)
  /\ guides = [g \in GuideIds |-> NoGuide]
  /\ heap = [a \in Addrs |-> <<>>]
  /\ path = [g \in GuideIds |-> <<>>]
  /\ hist = [g \in GuideIds |-> <<>>]
  /\ last = NoCall
  /\ processor = NoProcessor
  /\ pcall = NoProcCall
  /\ statesMappingCache = <<>>
  /\ trial = NoTrial

\* RegexGuide.fromRegex(regexString, tokenizer)
FromRegex(regexString, tokenizer) ==
  /\ LET made == RegexGuide_fromRegex(statesMappingCache, regexString, tokenizer)
     IN /\ statesMappingCache' = made.cache
        /\ pcall' = [NoProcCall EXCEPT !.op = "fromRegex", !.guide = made.guide]
  /\ UNCHANGED <<coreVars, processor, trial>>

NextGuide ==
  \E regexString \in GuideRegexes, tokenizer \in GuideTokenizers :
    FromRegex(regexString, tokenizer)

SpecGuide == InitGuide /\ [][NextGuide]_vars

\* ============================================================ JSON schema
\* A pattern is a sequence of lexemes, each a piece of pattern text the
\* source writes as a unit: a group bracket, an operator, a character class,
\* an escaped character or a plain character. Template strings and joins of
\* the source are concatenations of such sequences, so grouping and
\* precedence of the pattern text are kept.
\* ---------------------------------------------------------------- RegExp
Unbounded == 0 - 1

\* the character ch is matched by the one-character lexeme lex
LexemeMatches(lex, ch) ==
  CASE lex = "." -> TRUE
    [] lex = "[0-9]" -> ch \in Digits
    [] lex = "[1-9]" -> ch \in Digits \ {"0"}
    [] lex = "[eE]" -> ch \in {"e", "E"}
    [] lex = "[+-]" -> ch \in {"+", "-"}
    [] lex = "[ ]" -> ch = " "
    [] lex = "[^\"\\\\\\x00-\\x1F\\x7F-\\x9F]" -> ch \notin {"\"", "\\"}
    [] lex = "[\"\\\\]" -> ch \in {"\"", "\\"}
    [] lex = "\\{" -> ch = "{"
    [] lex = "\\}" -> ch = "}"
    [] lex = "\\[" -> ch = "["
    [] lex = "\\]" -> ch = "]"
    [] lex = "\\." -> ch = "."
    [] lex = "\\\\" -> ch = "\\"
    [] OTHER -> ch = lex

\* the number written by the digits of pattern[i..], and the index behind it
RECURSIVE RegExp_number(_, _, _)
RegExp_number(pattern, i, acc) ==
  IF i <= Len(pattern) /\ pattern[i] \in Digits
  THEN RegExp_number(pattern, i + 1,
                     acc * 10 + (CHOOSE d \in 0..9 : DigitChars[d + 1] = pattern[i]))
  ELSE [value |-> acc, next |-> i]

\* a parse is the node read and the index of the first lexeme behind it;
\* nodes: empty | char lex | cat left right | alt left right |
\*        rep child min max (max = Unbounded for none)
RECURSIVE RegExp_parseAlt(_, _), RegExp_parseSeq(_, _), RegExp_parseAtom(_, _)

\* the quantifier at pattern[i], if one is there, applied to node
RegExp_parseQuantifier(pattern, i, node) ==
  LET rep(min, max, next) ==
        [node |-> [kind |-> "rep", child |-> node, min |-> min, max |-> max],
         next |-> next]
  IN IF i > Len(pattern) THEN [node |-> node, next |-> i]
     ELSE CASE pattern[i] = "?" -> rep(0, 1, i + 1)
            [] pattern[i] = "*" -> rep(0, Unbounded, i + 1)
            [] pattern[i] = "+" -> rep(1, Unbounded, i + 1)
            [] pattern[i] = "{" ->
                 LET lo == RegExp_number(pattern, i + 1, 0)
                 IN IF pattern[lo.next] = "}"
                    THEN rep(lo.value, lo.value, lo.next + 1)
                    ELSE IF pattern[lo.next + 1] = "}"
                    THEN rep(lo.value, Unbounded, lo.next + 2)
                    ELSE LET hi == RegExp_number(pattern, lo.next + 1, 0)
                         IN rep(lo.value, hi.value, hi.next + 1)
            [] OTHER -> [node |-> node, next |-> i]

RegExp_parseAtom(pattern, i) ==
  IF pattern[i] \in {"(", "(?:"}
  THEN LET inner == RegExp_parseAlt(pattern, i + 1)
       IN [node |-> inner.node, next |-> inner.next + 1]
  ELSE [node |-> [kind |-> "char", lex |-> pattern[i]], next |-> i + 1]

RegExp_parseSeq(pattern, i) ==
  IF i > Len(pattern) \/ pattern[i] \in {")", "|"}
  THEN [node |-> [kind |-> "empty"], next |-> i]
  ELSE LET atom == RegExp_parseAtom(pattern, i)
           piece == RegExp_parseQuantifier(pattern, atom.next, atom.node)
           rest == RegExp_parseSeq(pattern, piece.next)
       IN [node |-> [kind |-> "cat", left |-> piece.node, right |-> rest.node],
           next |-> rest.next]

RegExp_parseAlt(pattern, i) ==
  LET first == RegExp_parseSeq(pattern, i)
  IN IF first.next <= Len(pattern) /\ pattern[first.next] = "|"
     THEN LET others == RegExp_parseAlt(pattern, first.next + 1)
          IN [node |-> [kind |-> "alt", left |-> first.node, right |-> others.node],
              next |-> others.next]
     ELSE first

\* the RegExp constructor rejects a quantifier whose numbers are out of order
RECURSIVE RegExp_valid(_)
RegExp_valid(node) ==
  CASE node.kind \in {"cat", "alt"} -> RegExp_valid(node.left) /\ RegExp_valid(node.right)
    [] node.kind = "rep" ->
         /\ node.max = Unbounded \/ node.min <= node.max
         /\ RegExp_valid(node.child)
    [] OTHER -> TRUE

\* the positions of s the node can end at when it starts at a position of P
\* (a position is the index of the next character to read)
RECURSIVE RegExp_ends(_, _, _), RegExp_repeat(_, _, _, _, _)
RegExp_ends(node, s, P) ==
  CASE node.kind = "empty" -> P
    [] node.kind = "char" ->
         {p + 1 : p \in {q \in P : q <= Len(s) /\ LexemeMatches(node.lex, s[q])}}
    [] node.kind = "cat" -> RegExp_ends(node.right, s, RegExp_ends(node.left, s, P))
    [] node.kind = "alt" -> RegExp_ends(node.left, s, P) \cup RegExp_ends(node.right, s, P)
    [] node.kind = "rep" -> RegExp_repeat(node.child, s, P, node.min, node.max)

RegExp_repeat(child, s, P, min, max) ==
  IF P = {} THEN {}
  ELSE IF min > 0
  THEN RegExp_repeat(child, s, RegExp_ends(child, s, P), min - 1,
                     IF max = Unbounded THEN max ELSE max - 1)
  ELSE IF max = 0 THEN P
  ELSE P \cup RegExp_repeat(child, s, RegExp_ends(child, s, P) \ P, 0,
                            IF max = Unbounded THEN max ELSE max - 1)

\* new RegExp(`^${pattern}$`).test(value) for a pattern that is one group
RegExp_test_anchored(pattern, value) ==
  LET node == RegExp_parseAlt(pattern, 1).node
  IN /\ RegExp_valid(node)
     /\ (Len(value) + 1) \in RegExp_ends(node, value, {1})

\* ------------------------------------------------- JSON_SCHEMA_CONSTANTS
\* the constants as the template literals of the source evaluate: in NUMBER
\* the backslash of `\.` is dropped, which leaves a dot
JSON_STRING ==
  <<"\"", "(", "[^\"\\\\\\x00-\\x1F\\x7F-\\x9F]", "|", "\\\\", "[\"\\\\]", ")", "*", "\"">>
JSON_INTEGER == <<"(", "-", ")", "?", "(", "0", "|", "[1-9]", "[0-9]", "*", ")">>
JSON_NUMBER ==
  <<"(", "(", "-", ")", "?", "(", "0", "|", "[1-9]", "[0-9]", "*", ")", ")",
    "(", ".", "[0-9]", "+", ")", "?",
    "(", "[eE]", "[+-]", "[0-9]", "+", ")", "?">>
JSON_BOOLEAN == <<"(", "t", "r", "u", "e", "|", "f", "a", "l", "s", "e", ")">>
JSON_NULL == <<"n", "u", "l", "l">>
JSON_WHITESPACE == <<"[ ]", "?">>

DefaultMaxRecursionDepth == 3

\* ----------------------------------------------------------------- Parser
\* A schema is a function from the keys present to their values; properties
\* is a sequence of <<name, schema>> pairs in source order, required a
\* sequence of names, anyOf/allOf/oneOf sequences of schemas, $ref a string.
Get(obj, key) == IF key \in DOMAIN obj THEN obj[key] ELSE Undefined

\* new Parser(root), withWhitespacePattern, withMaxRecursionDepth
Parser_constructor(root, whitespacePattern, maxRecursionDepth) ==
  [root |-> root,
   whitespacePattern |-> IF whitespacePattern # <<>> THEN whitespacePattern
                         ELSE JSON_WHITESPACE,
   maxRecursionDepth |-> IF maxRecursionDepth # Undefined THEN maxRecursionDepth
                         ELSE DefaultMaxRecursionDepth]

\* what changes while a parser compiles: its recursionDepth, and two history
\* fields: the highest recursionDepth so far and whether parseRef has thrown
\* RefRecursionLimitReached
Parser_start == [recursionDepth |-> 0, reached |-> 0, limitHit |-> FALSE]

\* a call returns the pattern, or throws a JsonSchemaError of type err
Returns(pattern, st) == [err |-> "", regex |-> pattern, st |-> st]
Throws(errorType, st) == [err |-> errorType, regex |-> <<>>, st |-> st]

\* str.replace(/[.*+?^${}()|[\\]\\]/g, '\\$&'): the class ends at the first
\* `]`, so a match is a class character followed by `\]`
EscapeClass == {".", "*", "+", "?", "^", "$", "{", "}", "(", ")", "|", "[", "\\"}
RECURSIVE Parser_escapeRegex(_)
Parser_escapeRegex(str) ==
  IF str = <<>> THEN <<>>
  ELSE IF Len(str) >= 3 /\ str[1] \in EscapeClass /\ str[2] = "\\" /\ str[3] = "]"
  THEN <<"\\", str[1], str[2], str[3]>> \o Parser_escapeRegex(SubSeq(str, 4, Len(str)))
  ELSE <<str[1]>> \o Parser_escapeRegex(Tail(str))

\* validateQuantifiers(minBound, maxBound, startOffset)
Parser_validateQuantifiers(minBound, maxBound, startOffset) ==
  LET adjustedMin == IF minBound # Undefined THEN Max(0, minBound - startOffset) ELSE Null
      adjustedMax == IF maxBound # Undefined THEN Max(0, maxBound - startOffset) ELSE Null
  IN IF adjustedMin # Null /\ adjustedMax # Null /\ adjustedMax < adjustedMin
     THEN [err |-> "MaxBoundError", min |-> Null, max |-> Null]
     ELSE [err |-> "", min |-> adjustedMin, max |-> adjustedMax]

\* buildQuantifier(min, max, defaultMin, unboundedSuffix)
Parser_buildQuantifier(min, max, defaultMin, unboundedSuffix) ==
  IF min # Null /\ max # Null
  THEN <<"{">> \o NumberToString(min) \o <<",">> \o NumberToString(max) \o <<"}">>
  ELSE IF min # Null THEN <<"{">> \o NumberToString(min) \o <<",", "}">>
  ELSE IF max # Null
  THEN <<"{">> \o NumberToString(defaultMin) \o <<",">> \o NumberToString(max) \o <<"}">>
  ELSE unboundedSuffix

\* getNumItemsPattern(minItems, maxItems); <<>> stands for null
Parser_getNumItemsPattern(minItems, maxItems) ==
  LET min == IF minItems = Undefined \/ minItems = 0 THEN 0 ELSE minItems
  IN IF maxItems = Undefined
     THEN <<"{">> \o NumberToString(Max(0, min - 1)) \o <<",", "}">>
     ELSE IF maxItems < 1 THEN <<>>
     ELSE <<"{">> \o NumberToString(Max(0, min - 1)) \o <<",">>
            \o NumberToString(maxItems - 1) \o <<"}">>

Parser_parseIntegerType(obj, st) ==
  IF "minDigits" \in DOMAIN obj \/ "maxDigits" \in DOMAIN obj
  THEN LET q == Parser_validateQuantifiers(Get(obj, "minDigits"), Get(obj, "maxDigits"), 1)
       IN IF q.err # "" THEN Throws(q.err, st)
          ELSE Returns(<<"(", "-", ")", "?", "(", "0", "|", "[1-9]", "[0-9]">>
                         \o Parser_buildQuantifier(q.min, q.max, 0, <<"*">>)
                         \o <<")">>, st)
  ELSE Returns(JSON_INTEGER, st)

NumberBounds ==
  {"minDigitsInteger", "maxDigitsInteger", "minDigitsFraction",
   "maxDigitsFraction", "minDigitsExponent", "maxDigitsExponent"}

Parser_parseNumberType(obj, st) ==
  IF \E key \in NumberBounds : key \in DOMAIN obj
  THEN LET int == Parser_validateQuantifiers(
                    Get(obj, "minDigitsInteger"), Get(obj, "maxDigitsInteger"), 1)
           frac == Parser_validateQuantifiers(
                     Get(obj, "minDigitsFraction"), Get(obj, "maxDigitsFraction"), 0)
           exp == Parser_validateQuantifiers(
                    Get(obj, "minDigitsExponent"), Get(obj, "maxDigitsExponent"), 0)
       IN IF int.err # "" THEN Throws(int.err, st)
          ELSE IF frac.err # "" THEN Throws(frac.err, st)
          ELSE IF exp.err # "" THEN Throws(exp.err, st)
          ELSE Returns(
                 <<"(", "(", "-", ")", "?", "(", "0", "|", "[1-9]", "[0-9]">>
                   \o Parser_buildQuantifier(int.min, int.max, 1, <<"*">>)
                   \o <<")", ")", "(", "\\.", "[0-9]">>
                   \o Parser_buildQuantifier(frac.min, frac.max, 0, <<"+">>)
                   \o <<")", "?", "(", "[eE]", "[+-]", "[0-9]">>
                   \o Parser_buildQuantifier(exp.min, exp.max, 0, <<"+">>)
                   \o <<")", "?">>, st)
  ELSE Returns(JSON_NUMBER, st)

\* the comma of property i (counted from 1) around its subregex, in an
\* object with required properties, taking every comma behind the property
Parser_withComma_behind(parser, subregex, i, lastRequiredPos) ==
  IF i # lastRequiredPos THEN subregex \o parser.whitespacePattern \o <<",">>
  ELSE subregex

Parser_withComma(parser, subregex, i, lastRequiredPos) ==
  IF i < lastRequiredPos THEN subregex \o parser.whitespacePattern \o <<",">>
  ELSE IF i > lastRequiredPos THEN parser.whitespacePattern \o <<",">> \o subregex
  ELSE subregex

\* `${ws}"${escapeRegex(name)}"${ws}:${ws}`
Parser_keyPattern(parser, name) ==
  parser.whitespacePattern \o <<"\"">> \o Parser_escapeRegex(name) \o <<"\"">>
    \o parser.whitespacePattern \o <<":">> \o parser.whitespacePattern

\* possiblePatterns.join('|') of the object without required properties
RECURSIVE Parser_optionalPrefix(_, _, _), JoinPatterns(_, _)
Parser_optionalPrefix(parser, propertySubregexes, j) ==
  IF j = 0 THEN <<>>
  ELSE Parser_optionalPrefix(parser, propertySubregexes, j - 1)
         \o <<"(">> \o propertySubregexes[j] \o parser.whitespacePattern
         \o <<",", ")", "?">>

\* patterns.join(separator)
JoinPatterns(patterns, separator) ==
  IF patterns = <<>> THEN <<>>
  ELSE IF Len(patterns) = 1 THEN patterns[1]
  ELSE patterns[1] \o separator \o JoinPatterns(Tail(patterns), separator)

\* '#/a/b'.split('#') and fragment.split('/').filter(non-empty), for the
\* references of the model: a `#` followed by `/`-separated one-character
\* keys
RECURSIVE PathParts(_)
PathParts(fragment) ==
  IF fragment = <<>> THEN <<>>
  ELSE IF Head(fragment) = "/" THEN PathParts(Tail(fragment))
  ELSE <<Head(fragment)>> \o PathParts(Tail(fragment))

\* resolveLocalRef(schema, pathParts); the result is err and the schema
RECURSIVE Parser_resolveLocalRef(_, _)
Parser_resolveLocalRef(schema, pathParts) ==
  IF pathParts = <<>> THEN [err |-> "", schema |-> schema]
  ELSE IF Head(pathParts) \notin DOMAIN schema
  THEN [err |-> "InvalidReferencePath", schema |-> schema]
  ELSE Parser_resolveLocalRef(schema[Head(pathParts)], Tail(pathParts))

RECURSIVE Parser_toRegex(_, _, _), Parser_parseProperties(_, _, _),
          Parser_requiredLoop(_, _, _, _, _, _),
          Parser_optionalLoop(_, _, _, _, _),
          Parser_mapToRegex(_, _, _, _),
          Parser_parseAllOf(_, _, _), Parser_parseAnyOf(_, _, _),
          Parser_parseOneOf(_, _, _), Parser_parseRef(_, _, _),
          Parser_parseType(_, _, _), Parser_parseArrayType(_, _, _)

\* toRegex(json) for the keywords the schemas of the model use
Parser_toRegex(parser, json, st) ==
  CASE "properties" \in DOMAIN json -> Parser_parseProperties(parser, json, st)
    [] "properties" \notin DOMAIN json /\ "allOf" \in DOMAIN json ->
         Parser_parseAllOf(parser, json, st)
    [] {"properties", "allOf"} \cap DOMAIN json = {} /\ "anyOf" \in DOMAIN json ->
         Parser_parseAnyOf(parser, json, st)
    [] {"properties", "allOf", "anyOf"} \cap DOMAIN json = {}
         /\ "oneOf" \in DOMAIN json ->
         Parser_parseOneOf(parser, json, st)
    [] {"properties", "allOf", "anyOf", "oneOf", "prefixItems", "enum", "const"}
         \cap DOMAIN json = {} /\ "$ref" \in DOMAIN json ->
         Parser_parseRef(parser, json, st)
    [] {"properties", "allOf", "anyOf", "oneOf", "prefixItems", "enum", "const",
        "$ref"} \cap DOMAIN json = {} /\ "type" \in DOMAIN json ->
         Parser_parseType(parser, json, st)
    [] {"properties", "allOf", "anyOf", "oneOf", "prefixItems", "enum", "const",
        "$ref", "type"} \cap DOMAIN json = {} /\ DOMAIN json # {} ->
         Throws("UnsupportedJsonSchema", st)

\* the loop of parseProperties over the properties from i on, when some
\* property is required
Parser_requiredLoop(parser, obj, isRequired, i, pattern, st) ==
  IF i > Len(obj.properties) THEN Returns(pattern, st)
  ELSE LET name == obj.properties[i][1]
           value == obj.properties[i][2]
           lastRequiredPos == CHOOSE l \in 1..Len(isRequired) :
                                /\ isRequired[l]
                                /\ \A k \in (l + 1)..Len(isRequired) : ~isRequired[k]
           r == Parser_toRegex(parser, value, st)
           subregex == Parser_withComma(parser, Parser_keyPattern(parser, name) \o r.regex,
                                        i, lastRequiredPos)
       IN IF r.err = "RefRecursionLimitReached"
          THEN Parser_requiredLoop(parser, obj, isRequired, i + 1, pattern, r.st)
          ELSE IF r.err # "" THEN r
          ELSE Parser_requiredLoop(
                 parser, obj, isRequired, i + 1,
                 pattern \o (IF isRequired[i] THEN subregex
                             ELSE <<"(">> \o subregex \o <<")", "?">>),
                 r.st)

\* the loop that collects propertySubregexes when no property is required;
\* the regex of the result is the sequence of subregexes
Parser_optionalLoop(parser, obj, i, propertySubregexes, st) ==
  IF i > Len(obj.properties) THEN Returns(propertySubregexes, st)
  ELSE LET name == obj.properties[i][1]
           value == obj.properties[i][2]
           r == Parser_toRegex(parser, value, st)
       IN IF r.err = "RefRecursionLimitReached"
          THEN Parser_optionalLoop(parser, obj, i + 1, propertySubregexes, r.st)
          ELSE IF r.err # "" THEN r
          ELSE Parser_optionalLoop(
                 parser, obj, i + 1,
                 Append(propertySubregexes, Parser_keyPattern(parser, name) \o r.regex),
                 r.st)

Parser_parseProperties(parser, obj, st) ==
  LET properties == obj.properties
      requiredProperties == IF "required" \in DOMAIN obj THEN obj.required ELSE <<>>
      propertyNames == MapKeys(properties)
      isRequired == [i \in 1..Len(propertyNames) |->
                       propertyNames[i] \in SeqToSet(requiredProperties)]
      close(r) == IF r.err # "" THEN r
                  ELSE Returns(<<"\\{">> \o r.regex \o parser.whitespacePattern
                                 \o <<"\\}">>, r.st)
  IN IF \E i \in 1..Len(isRequired) : isRequired[i]
     THEN close(Parser_requiredLoop(parser, obj, isRequired, 1, <<>>, st))
     ELSE LET subs == Parser_optionalLoop(parser, obj, 1, <<>>, st)
              possiblePatterns ==
                [i \in 1..Len(subs.regex) |->
                   Parser_optionalPrefix(parser, subs.regex, i - 1) \o subs.regex[i]]
          IN IF subs.err # "" THEN subs
             ELSE close(Returns(<<"(">> \o JoinPatterns(possiblePatterns, <<"|">>)
                                  \o <<")", "?">>, subs.st))

\* schemas.map((schema) => this.toRegex(schema)) from i on; the regex of the
\* result is the sequence of patterns
Parser_mapToRegex(parser, schemas, i, st) ==
  IF i > Len(schemas) THEN Returns(<<>>, st)
  ELSE LET r == Parser_toRegex(parser, schemas[i], st)
       IN IF r.err # "" THEN r
          ELSE LET rest == Parser_mapToRegex(parser, schemas, i + 1, r.st)
               IN IF rest.err # "" THEN rest
                  ELSE Returns(<<r.regex>> \o rest.regex, rest.st)

Parser_parseAllOf(parser, obj, st) ==
  LET subregexes == Parser_mapToRegex(parser, obj.allOf, 1, st)
  IN IF subregexes.err # "" THEN subregexes
     ELSE Returns(<<"(">> \o JoinPatterns(subregexes.regex, <<>>) \o <<")">>,
                  subregexes.st)

Parser_parseAnyOf(parser, obj, st) ==
  LET subregexes == Parser_mapToRegex(parser, obj.anyOf, 1, st)
  IN IF subregexes.err # "" THEN subregexes
     ELSE Returns(<<"(">> \o JoinPatterns(subregexes.regex, <<"|">>) \o <<")">>,
                  subregexes.st)

Parser_parseOneOf(parser, obj, st) ==
  LET subregexes == Parser_mapToRegex(parser, obj.oneOf, 1, st)
  IN IF subregexes.err # "" THEN subregexes
     ELSE Returns(<<"(">>
                    \o JoinPatterns([i \in 1..Len(subregexes.regex) |->
                                       <<"(?:">> \o subregexes.regex[i] \o <<")">>],
                                    <<"|">>)
                    \o <<")">>,
                  subregexes.st)

\* parseRef for a reference that is a fragment of the root (`#...`); the
\* finally block takes the depth back on return and on throw
Parser_parseRef(parser, obj, st) ==
  IF st.recursionDepth > parser.maxRecursionDepth
  THEN Throws("RefRecursionLimitReached", [st EXCEPT !.limitHit = TRUE])
  ELSE LET entered == [st EXCEPT !.recursionDepth = @ + 1,
                                 !.reached = Max(@, st.recursionDepth + 1)]
           refPath == obj["$ref"]
           referenced == Parser_resolveLocalRef(parser.root, PathParts(Tail(refPath)))
           r == CASE Head(refPath) = "#" ->
                  IF referenced.err # "" THEN Throws(referenced.err, entered)
                  ELSE Parser_toRegex(parser, referenced.schema, entered)
       IN [r EXCEPT !.st.recursionDepth = @ - 1]

\* parseType and parseTypeString for a type given as one string; string is
\* taken without length, pattern or format constraints
Parser_parseType(parser, obj, st) ==
  CASE obj.type = "string" -> Returns(JSON_STRING, st)
    [] obj.type = "number" -> Parser_parseNumberType(obj, st)
    [] obj.type = "integer" -> Parser_parseIntegerType(obj, st)
    [] obj.type = "array" -> Parser_parseArrayType(parser, obj, st)
    [] obj.type = "boolean" -> Returns(JSON_BOOLEAN, st)
    [] obj.type = "null" -> Returns(JSON_NULL, st)
    [] obj.type \notin {"string", "number", "integer", "array", "object",
                        "boolean", "null"} -> Throws("UnsupportedType", st)

\* parseArrayType of an array schema with items
Parser_parseArrayType(parser, obj, st) ==
  LET ws == parser.whitespacePattern
      minItems == Get(obj, "minItems")
      numRepeats == Parser_getNumItemsPattern(minItems, Get(obj, "maxItems"))
      allowEmpty == IF minItems = Undefined \/ minItems = 0 THEN <<"?">> ELSE <<>>
  IN IF numRepeats = <<>> THEN Returns(<<"\\[">> \o ws \o <<"\\]">>, st)
     ELSE CASE "items" \in DOMAIN obj ->
            LET items == Parser_toRegex(parser, obj.items, st)
            IN IF items.err # "" THEN items
               ELSE Returns(
                      <<"\\[">> \o ws \o <<"(", "(">> \o items.regex
                        \o <<")", "(", ",">> \o ws \o <<"(">> \o items.regex
                        \o <<")", ")">> \o numRepeats \o <<")">> \o allowEmpty
                        \o ws \o <<"\\]">>,
                      items.st)

\* buildRegexFromSchema(jsonSchema, whitespacePattern, maxRecursionDepth) on
\* the value JSON.parse yields; <<>> stands for no whitespacePattern. toRegex
\* runs twice on one parser, the first time for the log line.
buildRegexFromSchema(jsonValue, whitespacePattern, maxRecursionDepth) ==
  LET parser == Parser_constructor(jsonValue, whitespacePattern, maxRecursionDepth)
      logged == Parser_toRegex(parser, jsonValue, Parser_start)
  IN IF logged.err # "" THEN logged
     ELSE Parser_toRegex(parser, jsonValue, logged.st)

\* ------------------------------------------------------------ bounds
MaxProperties == 3
MaxBodyLen == 5
MaxDigits == 2
MaxItems == 2
MaxDepthArg == 2

\* ------------------------------------------------------- inputs (schema)
PropertyNames == <<<<"a">>, <<"b">>, <<"c">>, <<"d">>>>
IntegerSchema == [type |-> "integer"]
NullSchema == [type |-> "null"]

\* the names of the properties with an index in R, in source order
RECURSIVE NamesOf(_, _)
NamesOf(R, i) ==
  IF i > Len(PropertyNames) THEN <<>>
  ELSE (IF i \in R THEN <<PropertyNames[i]>> ELSE <<>>) \o NamesOf(R, i + 1)

\* an object schema declaring the first k names with the value null, those
\* of R required
ObjectSchema(k, R) ==
  LET properties == [i \in 1..k |-> <<PropertyNames[i], NullSchema>>]
  IN IF R = {} THEN [type |-> "object", properties |-> properties]
     ELSE [type |-> "object", properties |-> properties, required |-> NamesOf(R, 1)]

\* the text of an object whose body is a sequence of property names and
\* commas; every property has the value null
RECURSIVE ObjectBody(_)
ObjectBody(symbols) ==
  IF symbols = <<>> THEN <<>>
  ELSE (IF Head(symbols) = <<",">> THEN <<",">>
        ELSE <<"\"">> \o Head(symbols) \o <<"\"", ":">> \o JSON_NULL)
         \o ObjectBody(Tail(symbols))
ObjectText(symbols) == <<"{">> \o ObjectBody(symbols) \o <<"}">>

BodySymbols == {PropertyNames[i] : i \in 1..MaxProperties} \cup {<<",">>}

\* an array schema with integer items
ArraySchema(minItems, maxItems) ==
  LET base == [type |-> "array", items |-> IntegerSchema]
  IN (IF minItems # Undefined THEN ("minItems" :> minItems) ELSE base)
       @@ (IF maxItems # Undefined THEN ("maxItems" :> maxItems) ELSE base)
       @@ base

\* the text of an array of n items 1
ArrayText(n) ==
  <<"[">> \o JoinPatterns([i \in 1..n |-> <<"1">>], <<",">>) \o <<"]">>

\* an integer schema with digit bounds
DigitsSchema(minDigits, maxDigits) ==
  (IF minDigits # Undefined THEN ("minDigits" :> minDigits) ELSE IntegerSchema)
    @@ (IF maxDigits # Undefined THEN ("maxDigits" :> maxDigits) ELSE IntegerSchema)
    @@ IntegerSchema

\* a number schema with bounds on the digits of one part
NumberParts == {"Integer", "Fraction", "Exponent"}
NumberSchema(part, minDigits, maxDigits) ==
  LET base == [type |-> "number"]
      minKey == CASE part = "Integer" -> "minDigitsInteger"
                  [] part = "Fraction" -> "minDigitsFraction"
                  [] part = "Exponent" -> "minDigitsExponent"
      maxKey == CASE part = "Integer" -> "maxDigitsInteger"
                  [] part = "Fraction" -> "maxDigitsFraction"
                  [] part = "Exponent" -> "maxDigitsExponent"
  IN (IF minDigits # Undefined THEN (minKey :> minDigits) ELSE base)
       @@ (IF maxDigits # Undefined THEN (maxKey :> maxDigits) ELSE base)
       @@ base

\* schemas that refer to themselves, by the place of the reference
SelfRef == ("$ref" :> <<"#">>)
RefPlaces == {"root", "optionalProperty", "requiredProperty", "anyOfBranch", "items"}
RefSchema(place) ==
  CASE place = "root" -> SelfRef
    [] place = "optionalProperty" -> [properties |-> <<<<<<"c">>, SelfRef>>>>]
    [] place = "requiredProperty" ->
         [properties |-> <<<<<<"c">>, SelfRef>>>>, required |-> <<<<"c">>>>]
    [] place = "anyOfBranch" -> [anyOf |-> <<IntegerSchema, SelfRef>>]
    [] place = "items" -> [type |-> "array", items |-> SelfRef]

OrUndefined(S) == S \cup {Undefined}

\* ------------------------------------------------------- state (schema)
\* a schema, the arguments of the compilation and a text to test
SchemaInput(kind, schema, maxRecursionDepth, args, hasValue, value) ==
  [op |-> "input", kind |-> kind, schema |-> schema,
   maxRecursionDepth |-> maxRecursionDepth, args |-> args,
   hasValue |-> hasValue, value |-> value,
   err |-> "", regex |-> <<>>, st |-> Parser_start, accepts |-> FALSE]

InitSchema ==
  /\ regex = <<"1">>
  /\ vocabulary = Vocabulary_constructor(Tokenizer.eosTokenId, TokenMapOf(Tokenizer))
  /\ index = Index_constructor(regex, vocabulary)
  /\ guides = [g \in GuideIds |-> NoGuide]
  /\ heap = [a \in Addrs |-> <<>>]
  /\ path = [g \in GuideIds |-> <<>>]
  /\ hist = [g \in GuideIds |-> <<>>]
  /\ last = NoCall
  /\ processor = NoProcessor
  /\ pcall = NoProcCall
  /\ statesMappingCache = <<>>
  /\ \/ \E k \in 0..MaxProperties, symbols \in SeqsUpTo(BodySymbols, MaxBodyLen) :
          \E R \in SUBSET (1..k) :
            trial = SchemaInput("object", ObjectSchema(k, R), Undefined,
                                [k |-> k, R |-> R, symbols |-> symbols],
                                TRUE, ObjectText(symbols))
     \/ \E minItems \in OrUndefined(0..MaxItems), maxItems \in OrUndefined(0..MaxItems),
           n \in 0..(MaxItems + 1) :
          trial = SchemaInput("array", ArraySchema(minItems, maxItems), Undefined,
                              [min |-> minItems, max |-> maxItems, n |-> n],
                              TRUE, ArrayText(n))
     \/ \E minDigits \in OrUndefined(0..MaxDigits), maxDigits \in OrUndefined(0..MaxDigits) :
          \/ trial = SchemaInput("integer", DigitsSchema(minDigits, maxDigits), Undefined,
                                 [min |-> minDigits, max |-> maxDigits], FALSE, <<>>)
          \/ \E part \in NumberParts :
               trial = SchemaInput("number", NumberSchema(part, minDigits, maxDigits),
                                   Undefined,
                                   [min |-> minDigits, max |-> maxDigits, part |-> part],
                                   FALSE, <<>>)
     \/ \E place \in RefPlaces, maxRecursionDepth \in OrUndefined(0..MaxDepthArg) :
          trial = SchemaInput("ref", RefSchema(place), maxRecursionDepth,
                              [place |-> place], FALSE, <<>>)

\* buildRegexFromSchema(JSON.stringify(schema), undefined, maxRecursionDepth)
BuildRegexFromSchema ==
  /\ trial.op = "input"
  /\ LET r == buildRegexFromSchema(trial.schema, <<>>, trial.maxRecursionDepth)
     IN trial' = [trial EXCEPT !.op = "buildRegexFromSchema", !.err = r.err,
                               !.regex = r.regex, !.st = r.st]
  /\ UNCHANGED <<coreVars, procVars, statesMappingCache>>

\* jsonSchema(schema).matches(value): the compiled pattern is put in a group
\* and tested between `^` and `$`
Matches ==
  /\ trial.op = "buildRegexFromSchema"
  /\ trial.err = ""
  /\ trial.hasValue
  /\ trial' = [trial EXCEPT
                 !.op = "matches",
                 !.accepts = RegExp_test_anchored(<<"(">> \o trial.regex \o <<")">>,
                                                  trial.value)]
  /\ UNCHANGED <<coreVars, procVars, statesMappingCache>>

NextSchema == BuildRegexFromSchema \/ Matches

SpecSchema == InitSchema /\ [][NextSchema]_vars

\* ================================================================== DSL
\* ------------------------------------------------------------ bounds
MaxCount == 3
MaxChildren == 2

\* ------------------------------------------------------------------ Term
\* a Term is a record of its class (type) and its fields; a constructor or
\* function returns err ("" when it returned) and the term
Constructed(term) == [err |-> "", term |-> term]
NoTerm == [type |-> "none"]
Failed(error) == [err |-> error, term |-> NoTerm]

\* a JS string handed where a Term or a string is taken
JsString(value) == [type |-> "string", value |-> value]

StringTerm_constructor(value) == [type |-> "StringTerm", value |-> value]
Alternatives_constructor(terms) == Constructed([type |-> "Alternatives", terms |-> terms])
Sequence_constructor(terms) == Constructed([type |-> "Sequence", terms |-> terms])
QuantifyMinimum_constructor(term, minCount) ==
  Constructed([type |-> "QuantifyMinimum", term |-> term, minCount |-> minCount])
QuantifyMaximum_constructor(term, maxCount) ==
  Constructed([type |-> "QuantifyMaximum", term |-> term, maxCount |-> maxCount])

\* minCount > maxCount is false in JS when either side is undefined
QuantifyBetween_constructor(term, minCount, maxCount) ==
  IF minCount # Undefined /\ maxCount # Undefined /\ minCount > maxCount
  THEN Failed("Error")
  ELSE Constructed([type |-> "QuantifyBetween", term |-> term,
                    minCount |-> minCount, maxCount |-> maxCount])

\* typeof term === 'string' ? new StringTerm(term) : term
ConvertedTerm(term) ==
  IF term.type = "string" THEN StringTerm_constructor(term.value) ELSE term

either(terms) ==
  Alternatives_constructor([i \in 1..Len(terms) |-> ConvertedTerm(terms[i])])
atLeast(count, term) == QuantifyMinimum_constructor(ConvertedTerm(term), count)
atMost(count, term) == QuantifyMaximum_constructor(ConvertedTerm(term), count)
between(minCount, maxCount, term) ==
  QuantifyBetween_constructor(ConvertedTerm(term), minCount, maxCount)

Term_atLeast(this, count) == atLeast(count, this)
Term_atMost(this, count) == atMost(count, this)
Term_between(this, minCount, maxCount) == between(minCount, maxCount, this)

\* the deprecated method term.repeat(minCount, maxCount)
Term_repeat(this, minCount, maxCount) ==
  IF maxCount = Undefined THEN Term_atLeast(this, minCount)
  ELSE Term_between(this, minCount, maxCount)

\* the deprecated function repeat(term, minCount, maxCount)
repeat(term, minCount, maxCount) ==
  IF minCount = Undefined /\ maxCount = Undefined THEN Failed("Error")
  ELSE IF maxCount = Undefined THEN atLeast(minCount, term)
  ELSE IF minCount = Undefined THEN atMost(maxCount, term)
  ELSE between(minCount, maxCount, term)

\* --------------------------------------------------------- inputs (DSL)
DslTerms == {StringTerm_constructor(<<"a">>), StringTerm_constructor(<<"b">>)}
DslArgs == DslTerms \cup {JsString(<<"a">>)}
Counts == OrUndefined(0..MaxCount)

\* ---------------------------------------------------------- state (DSL)
DslInput(kind, term, terms, minCount, maxCount) ==
  [op |-> "input", kind |-> kind, term |-> term, terms |-> terms,
   minCount |-> minCount, maxCount |-> maxCount, err |-> "", ret |-> NoTerm]

InitDsl ==
  /\ regex = <<"1">>
  /\ vocabulary = Vocabulary_constructor(Tokenizer.eosTokenId, TokenMapOf(Tokenizer))
  /\ index = Index_constructor(regex, vocabulary)
  /\ guides = [g \in GuideIds |-> NoGuide]
  /\ heap = [a \in Addrs |-> <<>>]
  /\ path = [g \in GuideIds |-> <<>>]
  /\ hist = [g \in GuideIds |-> <<>>]
  /\ last = NoCall
  /\ processor = NoProcessor
  /\ pcall = NoProcCall
  /\ statesMappingCache = <<>>
  /\ \/ \E kind \in {"either", "Sequence"}, terms \in SeqsUpTo(DslArgs, MaxChildren) :
          /\ kind = "Sequence" => \A i \in 1..Len(terms) : terms[i] \in DslTerms
          /\ trial = DslInput(kind, NoTerm, terms, Undefined, Undefined)
     \/ \E kind \in {"between", "repeat", "Term.repeat"}, term \in DslTerms,
           minCount \in Counts, maxCount \in Counts :
          trial = DslInput(kind, term, <<>>, minCount, maxCount)

\* what a call leaves in trial
DslResult(op, r) == [trial EXCEPT !.op = op, !.err = r.err, !.ret = r.term]

\* either(...terms)
Either ==
  /\ trial.op = "input" /\ trial.kind = "either"
  /\ trial' = DslResult("either", either(trial.terms))
  /\ UNCHANGED <<coreVars, procVars, statesMappingCache>>

\* new Sequence(terms)
NewSequence ==
  /\ trial.op = "input" /\ trial.kind = "Sequence"
  /\ trial' = DslResult("Sequence", Sequence_constructor(trial.terms))
  /\ UNCHANGED <<coreVars, procVars, statesMappingCache>>

\* between(minCount, maxCount, term)
Between ==
  /\ trial.op = "input" /\ trial.kind = "between"
  /\ trial' = DslResult("between",
                        between(trial.minCount, trial.maxCount, trial.term))
  /\ UNCHANGED <<coreVars, procVars, statesMappingCache>>

\* repeat(term, minCount, maxCount)
Repeat ==
  /\ trial.op = "input" /\ trial.kind = "repeat"
  /\ trial' = DslResult("repeat",
                        repeat(trial.term, trial.minCount, trial.maxCount))
  /\ UNCHANGED <<coreVars, procVars, statesMappingCache>>

\* term.repeat(minCount, maxCount)
TermRepeat ==
  /\ trial.op = "input" /\ trial.kind = "Term.repeat"
  /\ trial' = DslResult("Term.repeat",
                        Term_repeat(trial.term, trial.minCount, trial.maxCount))
  /\ UNCHANGED <<coreVars, procVars, statesMappingCache>>

NextDsl == Either \/ NewSequence \/ Between \/ Repeat \/ TermRepeat

SpecDsl == InitDsl /\ [][NextDsl]_vars

\* ========================================================== vocabulary
\* a Vocabulary under insert and remove calls; no Guide and no processor
\* is constructed
MaxVocabCalls == 4       \* insert and remove calls on one Vocabulary

VocabTokens == {tok_a, tok_1, tok_empty}

\* (eosTokenId, tokenMap) the Vocabulary is constructed from; the last one
\* lists the EOS id among the ids of a token
VocabSetups ==
  { [eosTokenId |-> MaxTokenId, tokenMap |-> <<>>],
    [eosTokenId |-> MaxTokenId, tokenMap |-> <<<<tok_a, <<0>>>>>>],
    [eosTokenId |-> 0, tokenMap |-> <<<<tok_a, <<0, 1>>>>>>] }

InitVocab ==
  /\ regex = <<"1">>
  /\ \E setup \in VocabSetups :
       vocabulary = Vocabulary_constructor(setup.eosTokenId, setup.tokenMap)
  /\ index = Index_constructor(regex, vocabulary)
  /\ guides = [g \in GuideIds |-> NoGuide]
  /\ heap = [a \in Addrs |-> <<>>]
  /\ path = [g \in GuideIds |-> <<>>]
  /\ hist = [g \in GuideIds |-> <<>>]
  /\ last = NoCall
  /\ processor = NoProcessor
  /\ pcall = NoProcCall
  /\ statesMappingCache = <<>>
  /\ trial = NoTrial

\* vocabulary.insert(token, tokenId); last.n counts the calls made
Insert(token, tokenId) ==
  /\ last.n < MaxVocabCalls
  /\ LET r == Vocabulary_insert(vocabulary, token, tokenId)
     IN /\ vocabulary' = r.v
        /\ last' = [NoCall EXCEPT !.op = "insert", !.err = r.err,
                                  !.n = last.n + 1]
  /\ UNCHANGED <<regex, index, guides, heap, path, hist, procVars, libVars>>

\* vocabulary.remove(token)
Remove(token) ==
  /\ last.n < MaxVocabCalls
  /\ vocabulary' = Vocabulary_remove(vocabulary, token)
  /\ last' = [NoCall EXCEPT !.op = "remove", !.n = last.n + 1]
  /\ UNCHANGED <<regex, index, guides, heap, path, hist, procVars, libVars>>

NextVocab ==
  \/ \E token \in VocabTokens, tokenId \in TokenIds : Insert(token, tokenId)
  \/ \E token \in VocabTokens : Remove(token)

SpecVocab == InitVocab /\ [][NextVocab]_vars

\* ================================================================ claims

\* the transition table itself holds an entry for (state, tokenId)
HasTransition(idx, state, tokenId) ==
  /\ state \in DOMAIN idx.transitions
  /\ tokenId \in DOMAIN idx.transitions[state]

RowKeys(idx, state) ==
  IF state \in DOMAIN idx.transitions THEN DOMAIN idx.transitions[state] ELSE {}

\* the states of the Index: those it has an allowed list for
IndexStates(idx) == DOMAIN idx.stateAllowedTokens

\* states reachable from the initial state along stored transitions
RECURSIVE ReachableFrom(_, _)
ReachableFrom(idx, seen) ==
  LET more == seen \cup UNION {{idx.transitions[s][t] : t \in RowKeys(idx, s)} :
                                 s \in seen}
  IN IF more = seen THEN seen ELSE ReachableFrom(idx, more)
Reachable(idx) == ReachableFrom(idx, {idx.initialState})

\* a guide that performs advance on each id in turn, stopping at the first
\* call that throws: [err, state, cache]
RECURSIVE RunAdvances(_, _, _, _, _)
RunAdvances(idx, state, cache, maxRollback, ids) ==
  IF ids = <<>> THEN [err |-> "", state |-> state, cache |-> cache]
  ELSE LET r == Guide_advance(idx, state, cache, maxRollback, Head(ids))
       IN IF r.err # "" THEN r
          ELSE RunAdvances(idx, r.state, r.cache, maxRollback, Tail(ids))

\* the state guide g had n advances ago
StateBack(g, n) ==
  IF n = 0 THEN guides[g].state ELSE hist[g][Len(hist[g]) - n + 1]

\* ---- reference semantics of the patterns used by Setups ----
\* A pattern without metacharacters denotes the one string it spells, and
\* ".*" denotes every string: text is a prefix of a string of the language
IsLanguagePrefix(pattern, text) ==
  IF pattern = <<".", "*">> THEN TRUE
  ELSE Len(text) <= Len(pattern) /\ text = SubSeq(pattern, 1, Len(text))
InLanguage(pattern, text) ==
  IF pattern = <<".", "*">> THEN TRUE ELSE text = pattern

\* the text spelled by a sequence of ids (EOS has no bytes)
RECURSIVE Spell(_, _)
Spell(vocab, ids) ==
  IF ids = <<>> THEN <<>>
  ELSE (IF Head(ids) = vocab.eosTokenId \/ ~MapHas(vocab.idToToken, Head(ids))
        THEN <<>> ELSE MapGet(vocab.idToToken, Head(ids)))
       \o Spell(vocab, Tail(ids))

\* id can follow `text` in the DFA of the pattern: the bytes of its token walk
\* without dead-ending, and EOS is legal exactly in an accepting state
DfaAllows(pattern, vocab, text, id) ==
  IF id = vocab.eosTokenId THEN InLanguage(pattern, text)
  ELSE /\ Vocabulary_hasTokenById(vocab, id)
       /\ IsLanguagePrefix(pattern, text \o Vocabulary_getTokenById(vocab, id))

\* C2: the allowed tokens of the initial state are exactly the ids whose
\* bytes walk through the DFA of the regex from its start, and every token
\* sequence a Guide has accepted spells a prefix of a string of the language.
C2_AllowedIsDfaWalk ==
  /\ \A id \in TokenIds :
       id \in SeqToSet(Index_getAllowedTokens(index, Index_getInitialState(index)))
         <=> DfaAllows(regex, vocabulary, <<>>, id)
  /\ \A g \in GuideIds :
       guides[g].alive => IsLanguagePrefix(regex, Spell(vocabulary, path[g]))

\* C10: for every state of the Index the allowed list is the key set of the
\* state's transition row, and every allowed id has a next state that is a
\* state of the Index reachable from the initial state.
C10_AllowedIsRowKeySet ==
  \A s \in IndexStates(index) :
    /\ SeqToSet(Index_getAllowedTokens(index, s)) = RowKeys(index, s)
    /\ \A id \in SeqToSet(Index_getAllowedTokens(index, s)) :
         /\ Index_getNextState(index, s, id) # NoState
         /\ Index_getNextState(index, s, id) \in IndexStates(index)
         /\ Index_getNextState(index, s, id) \in Reachable(index)

\* an Index with several allowed ids, whose accepting state a guide has
\* reached and left again through an allowed id
C10_Witness ==
  /\ Len(Index_getAllowedTokens(index, 0)) >= 2
  /\ last.op = "advance" /\ last.err = ""
  /\ Len(path[last.g]) >= 2

\* C3: rollbackState(n) with n <= min(cached states, maxRollback) puts the
\* guide in the state it had n advances earlier; hence the state always
\* equals that of a fresh Guide advanced through the ids still in effect
\* (a, b, c, rollback 2, b' ends where a fresh guide ends after a, b').
C3_RollbackRestores ==
  [][/\ (/\ last'.op = "rollback"
         /\ Rollback(last'.g, last'.n)
         /\ last'.n <= Min(Len(Cache(last'.g)), guides[last'.g].maxRollback)
         /\ last'.n <= Len(hist[last'.g]))
          => guides'[last'.g].state = StateBack(last'.g, last'.n)
     /\ last'.op \in {"advance", "rollback", "reset", "clone"} =>
          \A g \in GuideIds :
            guides'[g].alive =>
              guides'[g].state =
                RunAdvances(index', Index_getInitialState(index'), <<>>,
                            guides'[g].maxRollback, path'[g]).state]_vars

\* three advances, then a rollback by 2 that succeeded
C3_Witness ==
  /\ last.op = "rollback" /\ last.n = 2 /\ last.err = ""
  /\ Len(path[last.g]) = 1
  /\ guides[last.g].state = 1

\* C4: the number of cached prior states never exceeds maxRollback.
C4_CacheWithinCapacity ==
  \A g \in GuideIds :
    guides[g].alive => Len(Cache(g)) <= guides[g].maxRollback

\* C5: advance(id) moves the guide to the target the transition table holds
\* for (state, id) when there is one, whatever the target is; when there is
\* none it raises InvalidTransition and leaves state and cache unchanged.
C5_AdvanceFollowsIndex ==
  [][last'.op = "advance" =>
       \A g \in {last'.g}, tokenId \in TokenIds :
         Advance(g, tokenId) =>
           IF HasTransition(index, guides[g].state, tokenId)
           THEN /\ last'.err = ""
                /\ guides'[g].state = index.transitions[guides[g].state][tokenId]
           ELSE /\ last'.err = "InvalidTransition"
                /\ guides' = guides
                /\ heap' = heap]_vars

\* an advance that failed on a guide that had advanced before
C5_Witness ==
  /\ last.op = "advance" /\ last.err = "InvalidTransition"
  /\ path[last.g] # <<>>
  /\ Cache(last.g) # <<>>

\* C6: rollbackState(n) with n above the number of cached states raises
\* InvalidRollback and changes nothing; otherwise it succeeds and removes
\* exactly the n newest entries of the cache.
C6_RollbackBounds ==
  [][last'.op = "rollback" =>
       \A g \in {last'.g}, n \in {last'.n} :
         Rollback(g, n) =>
           IF n > Len(Cache(g))
           THEN /\ last'.err = "InvalidRollback"
                /\ guides' = guides
                /\ heap' = heap
           ELSE /\ last'.err = ""
                /\ heap'[guides'[g].stateCache] =
                     SubSeq(Cache(g), 1, Len(Cache(g)) - n)]_vars

\* a rollback that asked for more than a non-empty cache holds
C6_Witness ==
  /\ last.op = "rollback" /\ last.err = "InvalidRollback"
  /\ Cache(last.g) # <<>>

\* a guide is in ERROR when its last step failed or when its current state
\* is not final and has no allowed tokens
InError(g) ==
  /\ guides[g].alive
  /\ \/ last.g = g /\ last.op = "advance" /\ last.err # ""
     \/ /\ ~Index_isFinalState(index, guides[g].state)
        /\ Index_getAllowedTokens(index, guides[g].state) = <<>>

\* C7 as stated: a guide in ERROR fails every advance and every rollback by
\* one or more steps made on it (only reset leaves ERROR), and reset gives
\* the initial state and an empty cache.
C7_ErrorIsSticky ==
  [][\A g \in {last'.g} :
       /\ (/\ last'.op = "advance" \/ (last'.op = "rollback" /\ last'.n >= 1)
           /\ InError(g))
            => last'.err # ""
       /\ last'.op = "reset" =>
            (Reset(g) => /\ guides'[g].state = Index_getInitialState(index)
                         /\ heap'[guides'[g].stateCache] = <<>>)]_vars

\* C7 amended: the Guide keeps no ERROR state. A failed advance or rollback
\* leaves state and cache as they were, and the next advance succeeds exactly
\* when the current state has a transition for its id, also right after a
\* failure; so only a guide whose state has no allowed tokens fails every
\* advance. reset gives the initial state and an empty cache.
C7_FailureLeavesGuideUsable ==
  [][\A g \in {last'.g} :
       /\ (last'.op \in {"advance", "rollback"} /\ last'.err # "")
            => (guides' = guides /\ heap' = heap)
       /\ (last'.op = "advance" /\ last.g = g /\ last.err # "") =>
            \A tokenId \in TokenIds :
              Advance(g, tokenId)
                => (last'.err = "" <=> HasTransition(index, guides[g].state, tokenId))
       /\ (/\ last'.op = "advance"
           /\ Index_getAllowedTokens(index, guides[g].state) = <<>>)
            => last'.err = "InvalidTransition"
       /\ last'.op = "reset" =>
            (Reset(g) => /\ guides'[g].state = Index_getInitialState(index)
                         /\ heap'[guides'[g].stateCache] = <<>>
                         /\ guides'[g].maxRollback = guides[g].maxRollback)]_vars

\* an advance has just failed on a guide whose current state still has a
\* transition, so a later advance on it can succeed without a reset
C7_Witness ==
  /\ last.op = "advance" /\ last.err = "InvalidTransition"
  /\ \E tokenId \in TokenIds :
       HasTransition(index, guides[last.g].state, tokenId)
  /\ \E tokenId \in TokenIds :
       ~HasTransition(index, guides[last.g].state, tokenId)

\* C8: acceptsTokens(sequence) changes neither state nor cache and returns
\* true exactly when advance on each id in order would succeed.
C8_AcceptsTokensPure ==
  /\ [](\A g \in GuideIds, sequence \in SeqsUpTo(TokenIds, MaxSeqLen) :
          guides[g].alive =>
            (Guide_acceptsTokens(index, guides[g].state, sequence)
               <=> RunAdvances(index, guides[g].state, Cache(g),
                               guides[g].maxRollback, sequence).err = ""))
  /\ [][last'.op = "acceptsTokens" =>
          /\ guides' = guides
          /\ heap' = heap
          /\ \E sequence \in SeqsUpTo(TokenIds, MaxSeqLen) :
               last'.ret = Guide_acceptsTokens(index, guides[last'.g].state,
                                               sequence)]_vars

\* acceptsTokens answered false on a guide that has allowed tokens
C8_Witness ==
  /\ last.op = "acceptsTokens" /\ ~last.ret
  /\ Index_getAllowedTokens(index, guides[last.g].state) # <<>>
  /\ path[last.g] # <<>>

\* C9: clone() yields a guide with the same state, cache contents and
\* capacity, and afterwards an advance, rollback or reset on one of the two
\* guides leaves the state and the cache of the other unchanged.
C9_CloneIsIndependent ==
  [][/\ last'.op = "clone" =>
          (Clone => /\ guides'[2].alive
                    /\ guides'[2].state = guides[1].state
                    /\ guides'[2].maxRollback = guides[1].maxRollback
                    /\ heap'[guides'[2].stateCache] = Cache(1)
                    /\ guides'[1] = guides[1]
                    /\ heap'[guides'[1].stateCache] = Cache(1))
     /\ last'.op \in {"advance", "rollback", "reset"} =>
          \A h \in GuideIds \ {last'.g} :
            guides[h].alive => /\ guides'[h] = guides[h]
                               /\ heap'[guides'[h].stateCache] = Cache(h)]_vars

\* the clone advanced on its own: its cache differs from the original's
C9_Witness ==
  /\ guides[2].alive
  /\ last.op = "advance" /\ last.g = 2 /\ last.err = ""
  /\ Cache(2) # Cache(1)

\* the ids process_logits is to leave unmasked in row b of the last call
AllowedInRow(b) ==
  SeqToSet(RegexGuide_getNextInstruction(processor.guide,
                                         pcall.sequence_states[b]).tokens)

\* C1: for every call of process_logits that returns, the output at (b, id)
\* is the input logit when id is in the allowed-token set of row b's guide
\* state and is -Infinity otherwise.
C1_MaskIsComplementOfAllowed ==
  (pcall.op = "process_logits" /\ pcall.err = "") =>
    \A b \in 1..Len(pcall.logits), id \in 0..(VocabSize - 1) :
      pcall.out.data[(b - 1) * VocabSize + id + 1] =
        IF id \in AllowedInRow(b) THEN pcall.logits[b][id + 1] ELSE NegInfinity

\* C11: no state of the Index reachable from the initial state, the initial
\* state included, has an empty allowed-token list unless it is final.
C11_NoReachableTrapState ==
  \A s \in Reachable(index) :
    Index_getAllowedTokens(index, s) = <<>> => Index_isFinalState(index, s)

\* C12: the EOS id is a legal transition from a state exactly when the state
\* is final: a guide at a final state accepts advance(EOS), a guide at a
\* non-final state rejects it, and at a final state an id other than EOS is
\* rejected unless the state has an outgoing transition for it.
C12_EosLegalIffFinal ==
  \A g \in GuideIds :
    guides[g].alive =>
      /\ (Guide_advance(index, guides[g].state, Cache(g), guides[g].maxRollback,
                        vocabulary.eosTokenId).err = "")
           <=> Index_isFinalState(index, guides[g].state)
      /\ \A tokenId \in TokenIds \ {vocabulary.eosTokenId} :
           (/\ Index_isFinalState(index, guides[g].state)
            /\ ~HasTransition(index, guides[g].state, tokenId))
             => Guide_advance(index, guides[g].state, Cache(g),
                              guides[g].maxRollback, tokenId).err # ""

\* C13: getNextInstruction at a state s of the guide with allowed ids A gives
\* Write([eos]) when A is empty and s is final, no Write at all (the guide
\* is in error) when A is empty and s is not final, Write(A) when A holds
\* one id, and Generate(A) otherwise.
C13_NextInstructionByAllowedSet ==
  (pcall.op = "getNextInstruction" /\ pcall.state \in DOMAIN processor.guide.fsm.states) =>
    LET A == RegexGuide_getAllowedTokens(processor.guide, pcall.state)
        final == RegexGuide_isFinalState(processor.guide, pcall.state)
        eos == processor.guide.tokenizer.eosTokenId
    IN /\ (Len(A) = 0 /\ final) => pcall.ret = createWrite(<<eos>>)
       /\ (Len(A) = 0 /\ ~final) => pcall.ret.type # "write"
       /\ Len(A) = 1 => pcall.ret = createWrite(A)
       /\ Len(A) > 1 => pcall.ret = createGenerate(A)

\* C14: insert(token, id) with the EOS id fails with the EOS-disallowed error
\* and leaves both maps as they were; with any other id it succeeds and id
\* is afterwards among get(token).
C14_InsertRejectsEos ==
  [][last'.op = "insert" =>
       \A token \in VocabTokens, tokenId \in TokenIds :
         Insert(token, tokenId) =>
           IF tokenId = vocabulary.eosTokenId
           THEN /\ last'.err = "EOSTokenDisallowed"
                /\ vocabulary'.tokenToIds = vocabulary.tokenToIds
                /\ vocabulary'.idToToken = vocabulary.idToToken
           ELSE /\ last'.err = ""
                /\ ~Vocabulary_get(vocabulary', token).isNull
                /\ tokenId \in SeqToSet(Vocabulary_get(vocabulary', token).ids)]_vars

\* an insert of the EOS id has just been refused on a vocabulary that holds
\* tokens
C14_Witness ==
  /\ last.op = "insert" /\ last.err = "EOSTokenDisallowed"
  /\ vocabulary.tokenToIds # <<>>

\* C15: a Vocabulary never holds the EOS id as the id of an ordinary token:
\* after construction and any insert and remove calls no id list contains
\* the EOS id and the EOS id still denotes the EOS marker.
C15_EosIdIsNeverOrdinary ==
  /\ \A token \in VocabTokens :
       vocabulary.eosTokenId \notin SeqToSet(Vocabulary_get(vocabulary, token).ids)
  /\ MapHas(vocabulary.idToToken, vocabulary.eosTokenId)
  /\ MapGet(vocabulary.idToToken, vocabulary.eosTokenId) = EOS_TOKEN

\* C16: the two maps are inverse of each other: for every id other than EOS
\* and every token, id is in get(token) exactly when getTokenById(id) is
\* that token.
C16_MapsAreInverse ==
  \A token \in VocabTokens, id \in TokenIds \ {vocabulary.eosTokenId} :
    (id \in SeqToSet(Vocabulary_get(vocabulary, token).ids))
      <=> (/\ Vocabulary_hasTokenById(vocabulary, id)
           /\ Vocabulary_getTokenById(vocabulary, id) = token)

\* the rows of the last call with every prompt position set to id 0
PromptBlanked(rows, seq_start) ==
  [b \in 1..Len(rows) |->
     [i \in 1..Len(rows[b]) |-> IF i <= seq_start THEN 0 ELSE rows[b][i]]]

\* C17: the processor records seq_start = T on its first call and keeps it
\* on later calls; the guide states of a call, the states it memoises and
\* its output depend only on the ids at positions >= seq_start: the same
\* call with the prompt positions overwritten gives the same result.
C17_OnlyPostPromptIdsCount ==
  [][pcall'.op = "process_logits" =>
       LET rows == pcall'.input_ids
           seq_start == IF processor.seq_start_idx = Null THEN Len(rows[1])
                        ELSE processor.seq_start_idx
           other == GuideLogitsProcessor_process_logits(
                      processor, tf_tensor2d(PromptBlanked(rows, seq_start)),
                      tf_tensor2d(pcall'.logits), pcall'.err # "")
       IN /\ processor'.seq_start_idx = seq_start
          /\ PromptBlanked(rows, seq_start) # rows =>
               /\ other.err = pcall'.err
               /\ other.sequence_states = pcall'.sequence_states
               /\ other.out = pcall'.out
               /\ other.processor.guide_states = processor'.guide_states]_vars

\* a call after the first one whose row has a prompt id other than 0 and a
\* generated id behind it
C17_Witness ==
  /\ pcall.op = "process_logits"
  /\ processor.calls >= 2
  /\ processor.seq_start_idx = 1
  /\ Len(pcall.input_ids[1]) = 2
  /\ pcall.input_ids[1][1] # 0
  /\ pcall.sequence_states[1] = 1

\* the guide stepped from `state` through the ids of gen in order
RECURSIVE StepThrough(_, _, _)
StepThrough(guide, state, gen) ==
  IF gen = <<>> THEN state
  ELSE StepThrough(guide, RegexGuide_getNextState(guide, state, Head(gen)),
                   Tail(gen))

\* C18: as long as every row's generated ids grew by the emitted ids, the
\* state stored under a fingerprint gen is the guide stepped from its
\* initial state through gen; a call stores under a missing fingerprint the
\* state of the parent fingerprint stepped by the last id, keeps every
\* entry it already held, and holds an entry for every row afterwards.
C18_MemoIsStepwiseState ==
  /\ [](processor.alive /\ processor.inOrder =>
          \A gen \in SeqsUpTo(ProcTokenIds, MaxInputLen) :
            MapHas(processor.guide_states, hash_key(gen)) =>
              MapGet(processor.guide_states, hash_key(gen))
                = StepThrough(processor.guide, processor.guide.initialState, gen))
  /\ [][pcall'.op = "process_logits" =>
          /\ \A i \in 1..Len(processor.guide_states) :
               processor'.guide_states[i] = processor.guide_states[i]
          /\ \A b \in 1..Len(pcall'.input_ids) :
               LET gen == PostPrompt(processor, pcall'.input_ids[b])
                   key == hash_key(gen)
                   parent == hash_key(SubSeq(gen, 1, Len(gen) - 1))
               IN /\ MapHas(processor'.guide_states, key)
                  /\ (/\ ~MapHas(processor.guide_states, key)
                      /\ MapHas(processor.guide_states, parent))
                       => MapGet(processor'.guide_states, key)
                            = RegexGuide_getNextState(
                                processor.guide,
                                MapGet(processor.guide_states, parent),
                                gen[Len(gen)])]_vars

\* the host kept its word over three calls and the processor holds the
\* final state under a fingerprint of two generated ids
C18_Witness ==
  /\ processor.alive /\ processor.inOrder
  /\ pcall.op = "process_logits"
  /\ \E gen \in [1..2 -> ProcTokenIds] :
       /\ MapHas(processor.guide_states, hash_key(gen))
       /\ MapGet(processor.guide_states, hash_key(gen)) = 1

IsPrefix(a, b) == Len(a) <= Len(b) /\ a = SubSeq(b, 1, Len(a))

\* the last call had no row whose generated ids are gen or start with gen,
\* while the processor holds an entry for gen
Dropped(gen) ==
  /\ pcall.op = "process_logits"
  /\ MapHas(processor.guide_states, hash_key(gen))
  /\ \A b \in 1..Len(pcall.input_ids) :
       ~IsPrefix(gen, SubSeq(pcall.input_ids[b], processor.seq_start_idx + 1,
                             Len(pcall.input_ids[b])))

\* C19: an entry of the fingerprint map is purged once its row is dropped:
\* after a call in which no row has the fingerprint as its generated ids or
\* as a prefix of them, the map eventually no longer holds it.
C19_DroppedEntriesArePurged ==
  \A gen \in SeqsUpTo(ProcTokenIds, MaxInputLen) :
    Dropped(gen) ~> ~MapHas(processor.guide_states, hash_key(gen))

\* the FSM of the guide holds a transition for (state, tokenId)
HasFsmTransition(guide, state, tokenId) ==
  /\ state \in DOMAIN guide.fsm.states
  /\ MapHas(guide.fsm.states[state].transitions, tokenId)

\* C20: when the newest generated id of a row has no transition from the
\* guide state stored for the row's parent fingerprint, the call raises
\* InvalidTransition; it does not keep the previous state and return
\* masked logits.
C20_InvalidTransitionIsRaised ==
  [][pcall'.op = "process_logits" =>
       \A b \in 1..Len(pcall'.input_ids) :
         LET gen == PostPrompt(processor, pcall'.input_ids[b])
             parent == hash_key(SubSeq(gen, 1, Len(gen) - 1))
         IN (/\ gen # <<>>
             /\ MapHas(processor.guide_states, parent)
             /\ ~HasFsmTransition(processor.guide,
                                  MapGet(processor.guide_states, parent),
                                  gen[Len(gen)]))
              => pcall'.err = "InvalidTransition"]_vars


\* ---- C21 ----
\* C21: __call__ fails with a shape-mismatch error exactly when the batch
\* dimensions of the logits and of the ids disagree; when they agree it
\* hands back logits of the shape it was given (a 1-D tensor counts as one
\* row)
LogitsBatch(shape) == IF Len(shape) = 1 THEN 1 ELSE shape[1]

C21_CallKeepsShape ==
  pcall.op = "call" =>
    LET agree == LogitsBatch(pcall.logits_in.shape) = Len(pcall.input_ids)
    IN /\ (pcall.err # "") <=> ~agree
       /\ agree => pcall.out.shape = pcall.logits_in.shape


\* ---- C29 ----
\* C29: the FSM of a RegexGuide built by buildRegexFSM has exactly two
\* states; every token allowed in the initial state leads to the final
\* state, which has no outgoing transition. So once one allowed token has
\* been generated the guide is in the final state, the instruction there is
\* Write([eos]) and no further token changes the state.
C29_TwoStateGuide ==
  processor.alive =>
    LET guide == processor.guide
        fsm == guide.fsm
        final == CHOOSE f \in fsm.finalStates : TRUE
    IN /\ Cardinality(DOMAIN fsm.states) = 2
       /\ Cardinality(fsm.finalStates) = 1
       /\ DOMAIN fsm.states = {fsm.initialState, final}
       /\ fsm.initialState # final
       /\ \A t \in ProcTokenIds :
            /\ HasFsmTransition(guide, fsm.initialState, t)
                 => RegexGuide_getNextState(guide, fsm.initialState, t) = final
            /\ ~HasFsmTransition(guide, final, t)
            /\ RegexGuide_getNextState(guide, final, t) = final
       /\ RegexGuide_getNextInstruction(guide, final)
            = createWrite(<<guide.tokenizer.eosTokenId>>)
       /\ processor.inOrder =>
            \A gen \in SeqsUpTo(ProcTokenIds, MaxInputLen) :
              (/\ gen # <<>>
               /\ MapHas(processor.guide_states, hash_key(gen))
               /\ HasFsmTransition(guide, fsm.initialState, gen[1]))
                => MapGet(processor.guide_states, hash_key(gen)) = final

\* a row went on for a second id after an allowed first one and its guide
\* is still in the final state
C29_Witness ==
  /\ processor.alive /\ processor.inOrder
  /\ pcall.op = "process_logits" /\ pcall.err = ""
  /\ \E gen \in SeqsUpTo(ProcTokenIds, MaxInputLen) :
       /\ Len(gen) >= 2
       /\ HasFsmTransition(processor.guide, processor.guide.fsm.initialState, gen[1])
       /\ MapHas(processor.guide_states, hash_key(gen))
       /\ RegexGuide_isFinalState(processor.guide,
                                  MapGet(processor.guide_states, hash_key(gen)))


\* ---- C30 ----
\* C30: whatever fromRegex calls came before, the guide fromRegex returns
\* for a pattern and a tokenizer runs the FSM that buildRegexFSM builds for
\* that pattern and that tokenizer
C30_CachedFsmIsFreshFsm ==
  pcall.op = "fromRegex" =>
    pcall.guide.fsm = buildRegexFSM(pcall.guide.regexString, pcall.guide.tokenizer)


\* ---- C22 ----
\* the body is a list of declared properties in declaration order, each at
\* most once, every required one among them, with exactly one comma between
\* neighbours and none before the first or behind the last
IsLegalBody(k, R, symbols) ==
  LET idx(j) == CHOOSE i \in 1..Len(PropertyNames) : PropertyNames[i] = symbols[j]
  IN \/ symbols = <<>> /\ R = {}
     \/ /\ Len(symbols) % 2 = 1
        /\ \A j \in 1..Len(symbols) :
             IF j % 2 = 0 THEN symbols[j] = <<",">>
             ELSE /\ symbols[j] # <<",">>
                  /\ idx(j) <= k
                  /\ j > 2 => idx(j - 2) < idx(j)
        /\ \A r \in R : \E j \in 1..Len(symbols) : symbols[j] = PropertyNames[r]

\* C22: the pattern of an object schema accepts an object exactly when the
\* properties present are a subsequence of the declared ones in declaration
\* order that holds every required property, with one comma between
\* neighbours and no leading, trailing or doubled comma, whether or not a
\* property is required
C22_ObjectBodyCommas ==
  (trial.op = "matches" /\ trial.kind = "object") =>
    (trial.accepts <=> IsLegalBody(trial.args.k, trial.args.R, trial.args.symbols))

\* an object that leaves out a declared property and holds two others with
\* one comma between them is accepted by the pattern of a schema with a
\* required property
C22_Witness ==
  /\ trial.op = "matches" /\ trial.kind = "object" /\ trial.accepts
  /\ trial.args.R # {}
  /\ Len(trial.args.symbols) >= 3
  /\ \E i \in 1..trial.args.k :
       \A j \in 1..Len(trial.args.symbols) : trial.args.symbols[j] # PropertyNames[i]

\* ---- C23 ----
\* C23: a RefRecursionLimit raised inside an optional property or an anyOf
\* branch is caught and the branch dropped; raised inside a required
\* property or anywhere else it surfaces
C23_LimitCaughtOnlyInOptional ==
  (trial.op = "buildRegexFromSchema" /\ trial.kind = "ref" /\ trial.st.limitHit) =>
    ((trial.err = "") <=> (trial.args.place \in {"optionalProperty", "anyOfBranch"}))

\* ---- C24 ----
\* C24: with max_recursion_depth d (3 when not given), a reference to the
\* schema itself is expanded d levels deep and the next level fails with
\* RefRecursionLimit; the depth counter is back at 0 when the compilation
\* returns or fails
C24_RefDepthIsLimit ==
  (trial.op = "buildRegexFromSchema" /\ trial.kind = "ref") =>
    LET d == IF trial.maxRecursionDepth = Undefined THEN 3
             ELSE trial.maxRecursionDepth
    IN /\ trial.st.limitHit
       /\ trial.st.reached = d
       /\ trial.st.recursionDepth = 0

\* ---- C25 ----
\* C25: digit bounds of an integer or number schema with the maximum below
\* the minimum fail with MaxBound
C25_MaxBelowMinFails ==
  (/\ trial.op = "buildRegexFromSchema"
   /\ trial.kind \in {"integer", "number"}
   /\ trial.args.min # Undefined /\ trial.args.max # Undefined
   /\ trial.args.max < trial.args.min)
    => trial.err = "MaxBoundError"

\* ---- C26 ----
\* C26: the pattern of an array schema with items accepts an array of n
\* items exactly when minItems <= n <= maxItems, a bound not given being no
\* bound
C26_ArrayLengthWithinBounds ==
  (trial.op = "matches" /\ trial.kind = "array") =>
    (trial.accepts <=>
       /\ trial.args.min # Undefined => trial.args.min <= trial.args.n
       /\ trial.args.max # Undefined => trial.args.n <= trial.args.max)

\* ---- C27 ----
\* C27: no Term that breaks the invariants of the DSL can be constructed: a
\* QuantifyBetween with min > max fails, and so does an Alternatives or a
\* Sequence without children, such as either() without arguments
C27_NoIllFormedTerm ==
  (trial.op \in {"either", "Sequence", "between"} /\ trial.err = "") =>
    /\ (/\ trial.ret.type = "QuantifyBetween"
        /\ trial.ret.minCount # Undefined
        /\ trial.ret.maxCount # Undefined)
         => trial.ret.minCount <= trial.ret.maxCount
    /\ trial.ret.type \in {"Alternatives", "Sequence"} => Len(trial.ret.terms) >= 1

\* ---- C28 ----
\* C28: the deprecated repeat, as the function repeat(term, min, max) and as
\* the method term.repeat(min, max), gives what the new quantifiers give:
\* atLeast(min) when only min is given, atMost(max) when only max is given,
\* between(min, max) when both are, and it fails when neither is
C28_RepeatIsNewQuantifier ==
  trial.op \in {"repeat", "Term.repeat"} =>
    LET result == [err |-> trial.err, term |-> trial.ret]
        min == trial.minCount
        max == trial.maxCount
    IN /\ (min = Undefined /\ max = Undefined) => trial.err # ""
       /\ (min # Undefined /\ max = Undefined) => result = atLeast(min, trial.term)
       /\ (min = Undefined /\ max # Undefined) => result = atMost(max, trial.term)
       /\ (min # Undefined /\ max # Undefined) => result = between(min, max, trial.term)

====
